---- MODULE Spec2Model ----
(***************************************************************************)
(* Dental clinic management system: the relational store (db.py) and the   *)
(* handlers of the patient portal and the staff console that write to it.  *)
(*                                                                         *)
(* Rows are records that keep the columns the handlers read or write       *)
(* (ids, foreign keys, status, price, amount, email); money is in          *)
(* centavos (DECIMAL(10,2) * 100).  NULL foreign keys are written Null.    *)
(* Spec runs the handlers one at a time; SpecConc splits the staff status  *)
(* edit into its separately committed statements; SpecBook drives the      *)
(* booking dialog over a bounded set of time strings.  SpecSeed runs       *)
(* seed_defaults on stores it left behind; SpecPortal registers patients   *)
(* and follows them to a billed appointment; SpecReg interleaves the       *)
(* writers of patients.email; SpecConn follows the connection each write   *)
(* handler opens; SpecPw applies hash_password and check_password;         *)
(* SpecStart runs DB() and main; SpecQuery issues statements through       *)
(* DB.query; SpecLookup runs the patient dashboard's read-only lookups;    *)
(* SpecAdd drives the staff's Add Appointment dialog; SpecEdit interleaves *)
(* status edits that meet no store error; SpecLogin logs in and registers  *)
(* through two portal windows; SpecIso runs the dashboards of two patients.*)
(***************************************************************************)
EXTENDS Integers, Sequences, FiniteSets, TLC

VARIABLES
    patients,      \* table patients: rows [id, email, password]
    services,      \* table services: rows [id, price]
    appointments,  \* table appointments: rows [id, patient_id, service_id, status]
    transactions,  \* table transactions: rows [id, patient_id, service_id, amount]
    nextId,        \* AUTO_INCREMENT counter of each table
    dlg,           \* per staff session: the row EditAppointmentDialog was opened on (self.app)
    save,          \* per staff session: position and locals of EditAppointmentDialog.save
    ptable,        \* per patient session: appointment ids whose Cancel button is enabled
    msg,           \* kind of the last QMessageBox shown
    time_input,    \* text of BookingDialog.time_input (driven in SpecBook)
    staff,         \* table staff: rows [id, email, password]
    reg,           \* per portal window: the page or dashboard shown, locals of register_action
    conn,          \* the store answers (up); DB objects open; an exception left a handler
    pw,            \* plaintexts, salt and results of hash_password / check_password
    boot           \* DB.__init__ and main: connection attempts and how startup ended

vars == <<patients, services, appointments, transactions, nextId,
          dlg, save, ptable, msg, time_input, staff, reg, conn, pw, boot>>

\* what the dashboards' handlers leave alone
extra == <<staff, reg, pw, boot>>

store == <<patients, services, appointments, transactions, nextId>>

-----------------------------------------------------------------------------
(* Bounds of the model *)

MaxAppts == 2        \* appointment rows ever inserted
MaxTxns == 2         \* transaction rows ever inserted
MaxPatients == 1     \* patient rows ever inserted (the seeded one included)
MaxTimeLen == 5      \* characters typed between the surrounding blanks
MaxRuns == 3         \* runs of seed_defaults
MaxAccounts == 2     \* patient rows ever inserted where the portal registers them
MaxDirty == 2        \* writes left uncommitted on one DB object
MaxNewServices == 1  \* service rows inserted through DB.query

Sessions == {"staffA", "staffB"}          \* staff consoles running at once
PatientIds == 1..MaxPatients
ModelServiceIds == {1, 2}                 \* services appointments are made for
EditedServiceIds == {1}                   \* services the staff edits or deletes
OralProphylaxis == 1                      \* id of the first seeded service
Emails == {"patient1@clinic.local", "new@clinic.local"}
EditPrices == {120000, 150000}            \* prices typed into EditServiceDialog
\* texts of the price field: float(text) gives value, or raises ValueError
PriceTexts == {[numeric |-> TRUE, value |-> v] : v \in EditPrices}
                  \cup {[numeric |-> FALSE, value |-> 0]}

Null == 0
NoDlg == [id |-> 0, patient_id |-> 0, service_id |-> 0]
Idle == [pc |-> "idle", price |-> 0]

Statuses == {"Pending", "Confirmed", "Completed", "Cancelled"}

-----------------------------------------------------------------------------
(* db.py: hash_password / check_password.  A plaintext is a sequence of     *)
(* code points, its encoding a sequence of bytes.  bcrypt keys the digest   *)
(* with the salt and the first BcryptLimit bytes of the password; releases  *)
(* before 5.0 drop the bytes after them, later releases refuse the          *)
(* password with ValueError.  The digest is taken as collision free.        *)

Min(a, b) == IF a < b THEN a ELSE b

BcryptLimit == 72
BcryptBuilds == {"truncates", "raises"}
Salts == {1, 2}                      \* values of bcrypt.gensalt()

\* str.encode("utf-8") for code points below U+0800
Utf8(cp) == IF cp < 128 THEN <<cp>> ELSE <<192 + (cp \div 64), 128 + (cp % 64)>>

RECURSIVE Encode(_)
Encode(s) == IF s = <<>> THEN <<>> ELSE Utf8(Head(s)) \o Encode(Tail(s))

\* variant: the whole password keys the digest
BcryptKeyWhole(bytes) == bytes

BcryptKey(bytes) == SubSeq(bytes, 1, Min(Len(bytes), BcryptLimit))

TooLong(lib, bytes) == lib = "raises" /\ Len(bytes) > BcryptLimit

\* bcrypt.hashpw(password, salt)
hashpw(lib, bytes, salt) ==
    IF TooLong(lib, bytes)
    THEN [raised |-> TRUE, salt |-> 0, digest |-> <<>>]
    ELSE [raised |-> FALSE, salt |-> salt, digest |-> <<salt, BcryptKey(bytes)>>]

\* bcrypt.checkpw(password, hashed_password): hashes again under the salt
\* of the stored hash and compares
checkpw(lib, bytes, hashed) ==
    IF TooLong(lib, bytes)
    THEN [raised |-> TRUE, ret |-> FALSE]
    ELSE [raised |-> FALSE, ret |-> hashpw(lib, bytes, hashed.salt) = hashed]

\* db.hash_password: the ValueError of hashpw leaves the function
hash_password(lib, plain, salt) == hashpw(lib, Encode(plain), salt)

\* db.check_password: except Exception: return False
check_password(lib, plain, hashed) ==
    LET r == checkpw(lib, Encode(plain), hashed) IN
    IF r.raised THEN FALSE ELSE r.ret

\* the code points of the passwords the seed and the forms carry
CodePoints(word) ==
    CASE word = "staff123" -> <<115, 116, 97, 102, 102, 49, 50, 51>>
      [] word = "patient123" -> <<112, 97, 116, 105, 101, 110, 116, 49, 50, 51>>
      [] word = "pw1" -> <<112, 119, 49>>
      [] word = "pw2" -> <<112, 119, 50>>
      [] OTHER -> <<>>

\* the password column of a row written with hash_password(word); the salt
\* gensalt() drew is taken as the first one
StoredHash(word) == hash_password("truncates", CodePoints(word), 1)

-----------------------------------------------------------------------------
(* db.py: seed_defaults *)

SeedPrices ==
    <<120000, 250000, 180000, 450000, 350000, 2000000, 2500000, 200000,
      650000, 320000, 80000, 100000, 1200000, 90000, 800000>>

SeedServices == {[id |-> i, price |-> SeedPrices[i]] : i \in 1..Len(SeedPrices)}

SeedPatients ==
    {[id |-> 1, email |-> "patient1@clinic.local", password |-> StoredHash("patient123")]}

SeedStaffEmails ==
    <<"maria.santos@clinic.local", "john.reyes@clinic.local",
      "ana.cruz@clinic.local", "carla.dizon@clinic.local">>

SeedStaff ==
    {[id |-> i, email |-> SeedStaffEmails[i], password |-> StoredHash("staff123")] :
        i \in 1..Len(SeedStaffEmails)}

-----------------------------------------------------------------------------
(* db.py: create_tables -- constraints the store enforces *)

\* FOREIGN KEY (patient_id) REFERENCES patients(id): NULL passes
PatientFkOk(pats, pid) == pid = Null \/ \E p \in pats : p.id = pid

\* FOREIGN KEY (service_id) REFERENCES services(id): NULL passes
ServiceFkOk(svcs, sid) == sid = Null \/ \E s \in svcs : s.id = sid

\* variant: only the transactions table carries the foreign key
PatientReferencedByTransactions(pid) ==
    \E t \in transactions : t.patient_id = pid

\* variant: the transactions table without its foreign keys
PatientReferencedByAppointments(pid) ==
    \E a \in appointments : a.patient_id = pid

\* a parent row can be deleted only when no child row references it
PatientReferenced(pid) ==
    \/ \E a \in appointments : a.patient_id = pid
    \/ \E t \in transactions : t.patient_id = pid

ServiceReferenced(sid) ==
    \/ \E a \in appointments : a.service_id = sid
    \/ \E t \in transactions : t.service_id = sid

\* variant: the column without its UNIQUE index
EmailTakenNever(pats, e) == FALSE

\* email VARCHAR(200) UNIQUE
EmailTaken(pats, e) == \E p \in pats : p.email = e

\* WHERE id=%s matches a row
HasId(rows, id) == \E r \in rows : r.id = id

-----------------------------------------------------------------------------
(* Column values the store accepts, and the booking dialog's validation *)

AsciiDigits == {"0", "1", "2", "3", "4", "5", "6", "7", "8", "9"}

\* U+0663 ARABIC-INDIC DIGIT THREE: a decimal digit (category Nd) outside ASCII
ArabicThree == "U+0663"

\* \d of a str pattern: any Unicode decimal digit, not only 0-9
IsDigit(c) == c \in AsciiDigits \/ c = ArabicThree

IsSpace(c) == c = " "

RECURSIVE LStrip(_)
LStrip(s) == IF s # <<>> /\ IsSpace(Head(s)) THEN LStrip(Tail(s)) ELSE s

RECURSIVE RStrip(_)
RStrip(s) ==
    IF s # <<>> /\ IsSpace(s[Len(s)]) THEN RStrip(SubSeq(s, 1, Len(s) - 1)) ELSE s

\* str.strip()
Strip(s) == RStrip(LStrip(s))

\* A field text is the sequence of its runs, a run being blank (" ") or the
\* non-blank word typed; Text is the str of a stripped one-word field
Text(s) == IF s = <<>> THEN "" ELSE s[1]

\* re.match(r'^([01]\d|2[0-3]):([0-5]\d)$', tm) on a stripped single-line text
TimeRegexMatch(tm) ==
    /\ Len(tm) = 5
    /\ \/ tm[1] \in {"0", "1"} /\ IsDigit(tm[2])
       \/ tm[1] = "2" /\ tm[2] \in {"0", "1", "2", "3"}
    /\ tm[3] = ":"
    /\ tm[4] \in {"0", "1", "2", "3", "4", "5"}
    /\ IsDigit(tm[5])

\* a TIME literal of MySQL, among the texts of at most five characters:
\* 'hh:mm' and 'h:mm' with any hours and minutes below 60 (TIME reaches
\* 838:59:59), and the digit strings 'ss', 'mmss', 'hmmss'
MySqlTimeLiteral(tm) ==
    LET n == Len(tm)
        sixty(c) == c \in {"0", "1", "2", "3", "4", "5"}
    IN  \/ /\ n \in {4, 5}
           /\ tm[n - 2] = ":"
           /\ \A i \in (1..n) \ {n - 2} : tm[i] \in AsciiDigits
           /\ sixty(tm[n - 1])
        \/ /\ n \in 1..5
           /\ \A i \in 1..n : tm[i] \in AsciiDigits
           /\ n >= 2 => sixty(tm[n - 1])
           /\ n >= 4 => sixty(tm[n - 3])

\* column `time TIME`: a TIME literal is stored; any other text is refused by
\* a server in strict sql_mode and stored, coerced, otherwise
TimeColumnAccepts(tm, strict) ==
    \/ MySqlTimeLiteral(tm)
    \/ ~strict

-----------------------------------------------------------------------------
(* db.py: DB objects as the handlers open and close them *)

\* db = DB()
Opened(c) == [c EXCEPT !.open = @ + 1]

\* finally: db.close()
Closed(c) == [c EXCEPT !.open = @ - 1]

\* db = DB() stands before the handler's try: when the server cannot be
\* reached, mysql.connector.Error leaves the handler and nothing else happens
DB_raises ==
    /\ conn' = [conn EXCEPT !.escaped = TRUE]
    /\ UNCHANGED <<patients, services, appointments, transactions, nextId,
                   dlg, save, ptable, msg, time_input, staff, reg, pw, boot>>

\* the MySQL server stops answering / answers again
server_stops ==
    /\ conn.up
    /\ conn' = [conn EXCEPT !.up = FALSE]
    /\ UNCHANGED <<patients, services, appointments, transactions, nextId,
                   dlg, save, ptable, msg, time_input, staff, reg, pw, boot>>

server_starts ==
    /\ ~conn.up
    /\ conn' = [conn EXCEPT !.up = TRUE]
    /\ UNCHANGED <<patients, services, appointments, transactions, nextId,
                   dlg, save, ptable, msg, time_input, staff, reg, pw, boot>>

-----------------------------------------------------------------------------
(* Statements of the handlers, as functions of the tables they touch *)

\* variant: the UPDATE without its WHERE clause
UpdateStatusAll(appts, id, st) == {[a EXCEPT !.status = st] : a \in appts}

\* UPDATE appointments SET status=%s, notes=%s WHERE id=%s
UpdateStatus(appts, id, st) ==
    {IF a.id = id THEN [a EXCEPT !.status = st] ELSE a : a \in appts}

\* UPDATE patients SET ..., email=%s, ... WHERE id=%s
UpdateEmail(pats, pid, e) ==
    {IF r.id = pid THEN [r EXCEPT !.email = e] ELSE r : r \in pats}

\* variant: the existence check left out
ExistingTransactionsNone(txns, pid, sid) == {}

\* variant: the two parameters bound in the wrong order
ExistingTransactionsSwapped(txns, pid, sid) ==
    {t \in txns : t.patient_id = sid /\ t.service_id = pid}

\* variant: the lookup matches on the patient only
ExistingTransactionsOfPatient(txns, pid, sid) ==
    {t \in txns : t.patient_id = pid}

\* SELECT id FROM transactions WHERE patient_id=%s AND service_id=%s
ExistingTransactions(txns, pid, sid) ==
    {t \in txns : t.patient_id = pid /\ t.service_id = sid}

\* variant: the fallback amount whatever the services table holds
ServicePriceZero(svcs, sid) == 0

\* variant: the catalogue price of the seed instead of the stored price
ServicePriceSeeded(svcs, sid) ==
    IF sid \in 1..Len(SeedPrices) THEN SeedPrices[sid] ELSE 0

\* SELECT price FROM services WHERE id=%s;  price_row[0]['price'] if price_row else 0
ServicePrice(svcs, sid) ==
    IF \E s \in svcs : s.id = sid
    THEN (CHOOSE s \in svcs : s.id = sid).price
    ELSE 0

\* INSERT INTO transactions (patient_id, service_id, amount) VALUES (%s, %s, %s)
InsertTransaction(txns, id, pid, sid, amount) ==
    txns \cup {[id |-> id, patient_id |-> pid, service_id |-> sid, amount |-> amount]}

\* variant: the row starts Confirmed
InsertAppointmentConfirmed(appts, id, pid, sid) ==
    appts \cup {[id |-> id, patient_id |-> pid, service_id |-> sid, status |-> "Confirmed"]}

\* INSERT INTO appointments (...) VALUES (...,'Pending') / schema DEFAULT 'Pending'
InsertAppointment(appts, id, pid, sid) ==
    appts \cup {[id |-> id, patient_id |-> pid, service_id |-> sid, status |-> "Pending"]}

\* show_my_appointments: rows of the patient joined with services; the Cancel
\* button is disabled when the status is completed or cancelled
MyCancellable(appts, svcs, p) ==
    {a.id : a \in {x \in appts :
                     /\ x.patient_id = p
                     /\ \E s \in svcs : s.id = x.service_id
                     /\ x.status \notin {"Completed", "Cancelled"}}}

Bump(counter) == [nextId EXCEPT ![counter] = @ + 1]

-----------------------------------------------------------------------------
(* State after seed_defaults on an empty store *)

InitStore ==
    /\ patients = SeedPatients
    /\ services = SeedServices
    /\ appointments = {}
    /\ transactions = {}
    /\ nextId = [staff |-> 5, patients |-> 2, services |-> 16,
                 appointments |-> 1, transactions |-> 1]

InitUi ==
    /\ dlg = [s \in Sessions |-> NoDlg]
    /\ save = [s \in Sessions |-> Idle]
    /\ ptable = [p \in PatientIds |-> {}]
    /\ msg = "none"

\* no registration under way, no handler run yet, nothing hashed, not started
Windows == {"portalA", "portalB"}         \* portal windows running at once
RegIdle == [pc |-> "form", email |-> "", password |-> ""]
NoRet == [kind |-> "none", rows |-> {}, commit |-> FALSE, count |-> 0,
          raised |-> FALSE, failed |-> FALSE]
NoConn == [up |-> TRUE, open |-> 0, escaped |-> FALSE,
           app |-> TRUE, view |-> {}, dirty |-> 0, ret |-> NoRet]
NoHash == [raised |-> FALSE, salt |-> 0, digest |-> <<>>]
NoPw == [pc |-> "idle", lib |-> "truncates", plain |-> <<>>, hashed |-> NoHash,
         other |-> <<>>, ok |-> FALSE]
NoBoot == [pc |-> "start", caller |-> "none", connects |-> 0, creates |-> 0,
           runs |-> 0, exit |-> -1, fatal |-> FALSE, portal |-> FALSE,
           database |-> TRUE]

InitExtra ==
    /\ staff = SeedStaff
    /\ reg = [w \in Windows |-> RegIdle]
    /\ conn = NoConn
    /\ pw = NoPw
    /\ boot = NoBoot

Init == InitStore /\ InitUi /\ time_input = <<>> /\ InitExtra

-----------------------------------------------------------------------------
(* Patient portal: patient_dashboard.py *)

\* PatientDashboard.show_my_appointments: (re)load the patient's table
show_my_appointments(p) ==
    /\ p < nextId.patients
    /\ IF ~conn.up
       THEN DB_raises
       ELSE /\ ptable' = [ptable EXCEPT ![p] = MyCancellable(appointments, services, p)]
            /\ UNCHANGED <<store, dlg, save, msg, time_input, extra>>
            /\ conn' = Closed(Opened(conn))

\* BookingDialog.book: raw is the text of the time field, svc the selected
\* service, strict the sql_mode of the server the INSERT reaches
BookingDialog_book(p, svc, raw, strict) ==
    /\ p < nextId.patients
    /\ nextId.appointments <= MaxAppts
    /\ IF ~conn.up /\ TimeRegexMatch(Strip(raw))
       THEN DB_raises
       ELSE /\ LET tm == Strip(raw) IN
               IF tm = <<>> \/ ~TimeRegexMatch(tm)
               THEN /\ msg' = "warning"
                    /\ UNCHANGED <<store, ptable>>
               ELSE IF /\ PatientFkOk(patients, p)
                       /\ ServiceFkOk(services, svc)
                       /\ TimeColumnAccepts(tm, strict)
               THEN /\ appointments' =
                           InsertAppointment(appointments, nextId.appointments, p, svc)
                    /\ nextId' = Bump("appointments")
                    /\ msg' = "info"
                    /\ ptable' = [ptable EXCEPT
                                     ![p] = MyCancellable(appointments', services, p)]
                    /\ UNCHANGED <<patients, services, transactions>>
               ELSE /\ msg' = "critical"
                    /\ UNCHANGED <<store, ptable>>
            /\ UNCHANGED <<dlg, save, time_input, extra>>
            /\ conn' = IF TimeRegexMatch(Strip(raw)) THEN Closed(Opened(conn)) ELSE conn

\* PatientDashboard.cancel_appointment, from an enabled Cancel button
cancel_appointment(p, appointment_id, reply) ==
    /\ appointment_id \in ptable[p]
    /\ IF ~conn.up
       THEN DB_raises
       ELSE /\ IF reply = "Yes"
               THEN /\ appointments' = UpdateStatus(appointments, appointment_id, "Cancelled")
                    /\ msg' = "info"
                    /\ ptable' = [ptable EXCEPT
                                     ![p] = MyCancellable(appointments', services, p)]
               ELSE UNCHANGED <<appointments, msg, ptable>>
            /\ UNCHANGED <<patients, services, transactions, nextId, dlg, save, time_input, extra>>
            /\ conn' = Closed(Opened(conn))

\* ProfileDialog.save of patient p: name and email are stripped and required
ProfileDialog_save(p, nm, em) ==
    /\ p < nextId.patients
    /\ IF ~conn.up /\ (Strip(nm) # <<>> /\ Strip(em) # <<>>)
       THEN DB_raises
       ELSE /\ IF Strip(nm) = <<>> \/ Strip(em) = <<>>
               THEN /\ msg' = "warning"
                    /\ UNCHANGED patients
               ELSE IF /\ EmailTaken({r \in patients : r.id # p}, Text(Strip(em)))
                       /\ HasId(patients, p)
               THEN /\ msg' = "critical"
                    /\ UNCHANGED patients
               ELSE /\ patients' = UpdateEmail(patients, p, Text(Strip(em)))
                    /\ msg' = "info"
            /\ UNCHANGED <<services, appointments, transactions, nextId,
                           dlg, save, ptable, time_input, extra>>
            /\ conn' = IF Strip(nm) # <<>> /\ Strip(em) # <<>> THEN Closed(Opened(conn)) ELSE conn

-----------------------------------------------------------------------------
(* Staff console: staff_dashboard.py *)

\* render_patients.on_add.save, while fewer than cap patient rows were inserted;
\* the dialog's password is "pw1"
staff_add_patient(e, cap) ==
    /\ IF ~conn.up
       THEN DB_raises
       ELSE /\ IF EmailTaken(patients, e)
               THEN /\ msg' = "critical"
                    /\ UNCHANGED <<patients, nextId>>
               ELSE /\ nextId.patients <= cap
                    /\ patients' = patients \cup {[id |-> nextId.patients, email |-> e,
                                                      password |-> StoredHash("pw1")]}
                    /\ nextId' = Bump("patients")
                    /\ UNCHANGED msg
            /\ UNCHANGED <<services, appointments, transactions, dlg, save, ptable, time_input, extra>>
            /\ conn' = Closed(Opened(conn))

\* render_patients.on_add.save
add_patient_save(e) == staff_add_patient(e, MaxPatients)

\* EditPatientDialog.save: the email field is written as typed
EditPatientDialog_save(pid, e) ==
    /\ IF ~conn.up
       THEN DB_raises
       ELSE /\ IF EmailTaken({r \in patients : r.id # pid}, e) /\ HasId(patients, pid)
               THEN /\ msg' = "critical"
                    /\ UNCHANGED patients
               ELSE /\ patients' = UpdateEmail(patients, pid, e)
                    /\ msg' = "info"
            /\ UNCHANGED <<services, appointments, transactions, nextId,
                           dlg, save, ptable, time_input, extra>>
            /\ conn' = Closed(Opened(conn))

\* StaffDashboard.delete_patient
delete_patient(pid, reply) ==
    /\ IF ~conn.up /\ reply = "Yes"
       THEN DB_raises
       ELSE /\ IF reply = "Yes"
               THEN IF PatientReferenced(pid)
                    THEN /\ msg' = "critical"
                         /\ UNCHANGED patients
                    ELSE /\ patients' = {p \in patients : p.id # pid}
                         /\ msg' = "info"
               ELSE UNCHANGED <<patients, msg>>
            /\ UNCHANGED <<services, appointments, transactions, nextId,
                           dlg, save, ptable, time_input, extra>>
            /\ conn' = IF reply = "Yes" THEN Closed(Opened(conn)) ELSE conn

\* StaffDashboard.delete_service
delete_service(sid, reply) ==
    /\ IF ~conn.up /\ reply = "Yes"
       THEN DB_raises
       ELSE /\ IF reply = "Yes"
               THEN IF ServiceReferenced(sid)
                    THEN /\ msg' = "critical"
                         /\ UNCHANGED services
                    ELSE /\ services' = {s \in services : s.id # sid}
                         /\ msg' = "info"
               ELSE UNCHANGED <<services, msg>>
            /\ UNCHANGED <<patients, appointments, transactions, nextId,
                           dlg, save, ptable, time_input, extra>>
            /\ conn' = IF reply = "Yes" THEN Closed(Opened(conn)) ELSE conn

\* variant: the delete also removes the Transactions of the appointment's pair
delete_appointment_cascade(aid, reply) ==
    /\ IF ~conn.up /\ reply = "Yes"
       THEN DB_raises
       ELSE /\ IF reply = "Yes"
               THEN /\ appointments' = {a \in appointments : a.id # aid}
                    /\ transactions' =
                          {u \in transactions :
                              ~\E a \in appointments :
                                  /\ a.id = aid
                                  /\ a.patient_id = u.patient_id
                                  /\ a.service_id = u.service_id}
                    /\ msg' = "info"
               ELSE UNCHANGED <<appointments, transactions, msg>>
            /\ UNCHANGED <<patients, services, nextId, dlg, save, ptable, time_input, extra>>
            /\ conn' = IF reply = "Yes" THEN Closed(Opened(conn)) ELSE conn

\* StaffDashboard.delete_appointment
delete_appointment(aid, reply) ==
    /\ IF ~conn.up /\ reply = "Yes"
       THEN DB_raises
       ELSE /\ IF reply = "Yes"
               THEN /\ appointments' = {a \in appointments : a.id # aid}
                    /\ msg' = "info"
               ELSE UNCHANGED <<appointments, msg>>
            /\ UNCHANGED <<patients, services, transactions, nextId,
                           dlg, save, ptable, time_input, extra>>
            /\ conn' = IF reply = "Yes" THEN Closed(Opened(conn)) ELSE conn

\* EditServiceDialog.save on an existing service
EditServiceDialog_save(sid, text) ==
    /\ IF ~conn.up /\ text.numeric
       THEN DB_raises
       ELSE /\ IF ~text.numeric
               THEN /\ msg' = "warning"
                    /\ UNCHANGED services
               ELSE /\ services' =
                           {IF s.id = sid THEN [s EXCEPT !.price = text.value] ELSE s : s \in services}
                    /\ msg' = "info"
            /\ UNCHANGED <<patients, appointments, transactions, nextId,
                           dlg, save, ptable, time_input, extra>>
            /\ conn' = IF text.numeric THEN Closed(Opened(conn)) ELSE conn

\* render_appointments.on_add.save: pid, sid are the data of the two combo
\* boxes (pid is None when the patient list was empty); tm is not validated
add_appointment_save(pid, sid, tm, strict) ==
    /\ nextId.appointments <= MaxAppts
    /\ pid = Null => patients = {}
    /\ IF ~conn.up
       THEN DB_raises
       ELSE /\ IF /\ PatientFkOk(patients, pid)
                  /\ ServiceFkOk(services, sid)
                  /\ TimeColumnAccepts(Strip(tm), strict)
               THEN /\ appointments' =
                           InsertAppointment(appointments, nextId.appointments, pid, sid)
                    /\ nextId' = Bump("appointments")
                    /\ UNCHANGED msg
               ELSE /\ msg' = "critical"
                    /\ UNCHANGED <<appointments, nextId>>
            /\ UNCHANGED <<patients, services, transactions, dlg, save, ptable, time_input, extra>>
            /\ conn' = Closed(Opened(conn))

\* StaffDashboard.open_edit_appointment on a row of the loaded table
\* (appointments JOIN patients JOIN services)
open_edit_appointment(s, a) ==
    /\ dlg[s] = NoDlg
    /\ a \in appointments
    /\ \E p \in patients : p.id = a.patient_id
    /\ \E v \in services : v.id = a.service_id
    /\ dlg' = [dlg EXCEPT ![s] = [id |-> a.id, patient_id |-> a.patient_id,
                                  service_id |-> a.service_id]]
    /\ UNCHANGED <<store, save, ptable, msg, time_input, conn, extra>>

\* the dialog is dismissed without a successful save
close_edit_appointment(s) ==
    /\ dlg[s] # NoDlg
    /\ save[s].pc = "idle"
    /\ dlg' = [dlg EXCEPT ![s] = NoDlg]
    /\ UNCHANGED <<store, save, ptable, msg, time_input, conn, extra>>

FailPoints == {"none", "update", "select_existing", "select_price", "insert"}

\* variant: the statements of one save share a transaction, so a failure after
\* the UPDATE undoes it
SaveOutcomeRollback(app, new_status, fail) ==
    LET existing == ExistingTransactions(transactions, app.patient_id, app.service_id)
        fk == /\ PatientFkOk(patients, app.patient_id)
              /\ ServiceFkOk(services, app.service_id)
    IN  IF fail = "update" THEN "failed_update"
        ELSE IF new_status # "Completed" THEN "updated"
        ELSE IF fail = "select_existing" THEN "failed_update"
        ELSE IF existing # {} THEN "updated"
        ELSE IF fail = "select_price" THEN "failed_update"
        ELSE IF fail = "insert" \/ ~fk THEN "failed_update"
        ELSE "billed"

\* how far EditAppointmentDialog.save gets: fail names the statement at which
\* the store raises (any exception ends the handler in its `except` branch)
SaveOutcome(app, new_status, fail) ==
    LET existing == ExistingTransactions(transactions, app.patient_id, app.service_id)
        fk == /\ PatientFkOk(patients, app.patient_id)
              /\ ServiceFkOk(services, app.service_id)
    IN  IF fail = "update" THEN "failed_update"
        ELSE IF new_status # "Completed" THEN "updated"
        ELSE IF fail = "select_existing" THEN "failed_after_update"
        ELSE IF existing # {} THEN "updated"
        ELSE IF fail = "select_price" THEN "failed_after_update"
        ELSE IF fail = "insert" \/ ~fk THEN "failed_after_update"
        ELSE "billed"

\* EditAppointmentDialog.save, run to completion
EditAppointmentDialog_save(s, new_status, fail) ==
    /\ dlg[s] # NoDlg
    /\ save[s].pc = "idle"
    /\ IF ~conn.up
       THEN DB_raises
       ELSE /\ LET app == dlg[s]
                   out == SaveOutcome(app, new_status, fail)
               IN  /\ out = "billed" => nextId.transactions <= MaxTxns
                   /\ appointments' =
                         IF out = "failed_update" THEN appointments
                         ELSE UpdateStatus(appointments, app.id, new_status)
                   /\ IF out = "billed"
                      THEN /\ transactions' =
                                 InsertTransaction(transactions, nextId.transactions,
                                                   app.patient_id, app.service_id,
                                                   ServicePrice(services, app.service_id))
                           /\ nextId' = Bump("transactions")
                      ELSE UNCHANGED <<transactions, nextId>>
                   /\ IF out \in {"updated", "billed"}
                      THEN /\ msg' = "info"
                           /\ dlg' = [dlg EXCEPT ![s] = NoDlg]
                      ELSE /\ msg' = "critical"
                           /\ UNCHANGED dlg
            /\ UNCHANGED <<patients, services, save, ptable, time_input, extra>>
            /\ conn' = Closed(Opened(conn))

-----------------------------------------------------------------------------
(* EditAppointmentDialog.save statement by statement: every db.query with      *)
(* commit=True commits on its own, so other sessions run between them.         *)

\* db.query("UPDATE appointments SET status=%s, notes=%s WHERE id=%s", commit=True)
save_update(s, new_status, fail) ==
    /\ dlg[s] # NoDlg
    /\ save[s].pc = "idle"
    /\ IF ~conn.up
       THEN DB_raises
       ELSE /\ IF fail
               THEN /\ msg' = "critical"
                    /\ UNCHANGED <<appointments, dlg, save>>
               ELSE /\ appointments' = UpdateStatus(appointments, dlg[s].id, new_status)
                    /\ IF new_status = "Completed"
                       THEN /\ save' = [save EXCEPT ![s].pc = "updated"]
                            /\ UNCHANGED <<msg, dlg>>
                       ELSE /\ msg' = "info"
                            /\ dlg' = [dlg EXCEPT ![s] = NoDlg]
                            /\ UNCHANGED save
            /\ UNCHANGED <<patients, services, transactions, nextId, ptable, time_input, extra>>
            /\ conn' = IF ~fail /\ new_status = "Completed" THEN Opened(conn) ELSE Closed(Opened(conn))

\* existing = db.query("SELECT id FROM transactions WHERE patient_id=%s AND service_id=%s")
save_select_existing(s, fail) ==
    /\ save[s].pc = "updated"
    /\ IF fail
       THEN /\ msg' = "critical"
            /\ save' = [save EXCEPT ![s] = Idle]
            /\ UNCHANGED dlg
       ELSE IF ExistingTransactions(transactions, dlg[s].patient_id,
                                    dlg[s].service_id) # {}
       THEN /\ msg' = "info"
            /\ dlg' = [dlg EXCEPT ![s] = NoDlg]
            /\ save' = [save EXCEPT ![s] = Idle]
       ELSE /\ save' = [save EXCEPT ![s].pc = "checked"]
            /\ UNCHANGED <<msg, dlg>>
    /\ conn' = IF save'[s].pc = "checked" THEN conn ELSE Closed(conn)
    /\ UNCHANGED <<store, ptable, time_input, extra>>

\* price_row = db.query("SELECT price FROM services WHERE id=%s")
save_select_price(s, fail) ==
    /\ save[s].pc = "checked"
    /\ IF fail
       THEN /\ msg' = "critical"
            /\ save' = [save EXCEPT ![s] = Idle]
       ELSE /\ save' = [save EXCEPT ![s] =
                           [pc |-> "priced",
                            price |-> ServicePrice(services, dlg[s].service_id)]]
            /\ UNCHANGED msg
    /\ conn' = IF fail THEN Closed(conn) ELSE conn
    /\ UNCHANGED <<store, dlg, ptable, time_input, extra>>

\* variant: the INSERT is skipped when a row of the pair exists by now, as under
\* a check made atomically with the INSERT
save_insert_rechecked(s, fail) ==
    /\ save[s].pc = "priced"
    /\ IF \/ fail
          \/ ~PatientFkOk(patients, dlg[s].patient_id)
          \/ ~ServiceFkOk(services, dlg[s].service_id)
       THEN /\ msg' = "critical"
            /\ UNCHANGED <<transactions, nextId, dlg>>
       ELSE /\ nextId.transactions <= MaxTxns
            /\ IF ExistingTransactions(transactions, dlg[s].patient_id,
                                       dlg[s].service_id) # {}
               THEN UNCHANGED <<transactions, nextId>>
               ELSE /\ transactions' =
                          InsertTransaction(transactions, nextId.transactions,
                                            dlg[s].patient_id, dlg[s].service_id,
                                            save[s].price)
                    /\ nextId' = Bump("transactions")
            /\ msg' = "info"
            /\ dlg' = [dlg EXCEPT ![s] = NoDlg]
    /\ save' = [save EXCEPT ![s] = Idle]
    /\ conn' = Closed(conn)
    /\ UNCHANGED <<patients, services, appointments, ptable, time_input, extra>>

\* db.query("INSERT INTO transactions (patient_id, service_id, amount) ...", commit=True)
save_insert(s, fail) ==
    /\ save[s].pc = "priced"
    /\ IF \/ fail
          \/ ~PatientFkOk(patients, dlg[s].patient_id)
          \/ ~ServiceFkOk(services, dlg[s].service_id)
       THEN /\ msg' = "critical"
            /\ UNCHANGED <<transactions, nextId, dlg>>
       ELSE /\ nextId.transactions <= MaxTxns
            /\ transactions' =
                   InsertTransaction(transactions, nextId.transactions,
                                     dlg[s].patient_id, dlg[s].service_id,
                                     save[s].price)
            /\ nextId' = Bump("transactions")
            /\ msg' = "info"
            /\ dlg' = [dlg EXCEPT ![s] = NoDlg]
    /\ save' = [save EXCEPT ![s] = Idle]
    /\ conn' = Closed(conn)
    /\ UNCHANGED <<patients, services, appointments, ptable, time_input, extra>>

-----------------------------------------------------------------------------
(* Portal: portal_ui.py, register_action *)

\* str.isdigit() on the texts the age field holds
IsDigitStr(s) == s # <<>> /\ \A i \in 1..Len(s) : s[i] \in AsciiDigits

DigitValue(c) ==
    CASE c = "0" -> 0 [] c = "1" -> 1 [] c = "2" -> 2 [] c = "3" -> 3 [] c = "4" -> 4
      [] c = "5" -> 5 [] c = "6" -> 6 [] c = "7" -> 7 [] c = "8" -> 8 [] c = "9" -> 9

\* int(age)
RECURSIVE IntOf(_)
IntOf(s) ==
    IF s = <<>> THEN 0
    ELSE 10 * IntOf(SubSeq(s, 1, Len(s) - 1)) + DigitValue(s[Len(s)])

\* variant: any digit string passes
AgeOkDigits(age) == IsDigitStr(age)

\* not (not age.isdigit() or not (1 <= int(age) <= 120))
AgeOk(age) == IsDigitStr(age) /\ 1 <= IntOf(age) /\ IntOf(age) <= 120

\* the message of the validation that stops register_action before DB(), or ""
RegInvalid(f) ==
    IF \/ Strip(f.name) = <<>> \/ Strip(f.email) = <<>>
       \/ Strip(f.pw) = <<>> \/ Strip(f.confirm) = <<>>
    THEN "Please fill all required fields."
    ELSE IF Strip(f.pw) # Strip(f.confirm) THEN "Passwords do not match."
    ELSE IF ~AgeOk(Strip(f.age)) THEN "Please enter a valid age between 1 and 120."
    ELSE ""

\* SELECT id FROM patients WHERE email=%s
EmailExists(pats, e) == \E p \in pats : p.email = e

\* ClinicPortal.register_action, run to completion in window w on the form f
register_action(w, f) ==
    /\ reg[w].pc = "form"
    /\ IF ~conn.up /\ RegInvalid(f) = ""
       THEN DB_raises
       ELSE /\ LET email == Text(Strip(f.email)) IN
               IF RegInvalid(f) # ""
               THEN /\ msg' = RegInvalid(f)
                    /\ reg' = [reg EXCEPT ![w] = [pc |-> "form", email |-> email, password |-> ""]]
                    /\ UNCHANGED <<patients, nextId>>
               ELSE IF EmailExists(patients, email)
               THEN /\ msg' = "Email already registered."
                    /\ reg' = [reg EXCEPT ![w] = [pc |-> "form", email |-> email, password |-> ""]]
                    /\ UNCHANGED <<patients, nextId>>
               ELSE /\ nextId.patients <= MaxAccounts
                    /\ patients' = patients \cup {[id |-> nextId.patients, email |-> email,
                                                      password |-> StoredHash(Text(Strip(f.pw)))]}
                    /\ nextId' = Bump("patients")
                    /\ msg' = "Registration completed successfully."
                    /\ reg' = [reg EXCEPT ![w] = [pc |-> "success", email |-> email,
                                                     password |-> Text(Strip(f.pw))]]
            /\ UNCHANGED <<services, appointments, transactions, dlg, save, ptable,
                           time_input, staff, pw, boot>>
            /\ conn' = IF RegInvalid(f) = "" THEN Closed(Opened(conn)) ELSE conn

\* ClinicPortal.show_login from the success card
show_login(w) ==
    /\ reg[w].pc = "success"
    /\ reg' = [reg EXCEPT ![w].pc = "form"]
    /\ UNCHANGED <<store, dlg, save, ptable, msg, time_input, staff, conn, pw, boot>>

\* register_action up to its SELECT: the validations, DB() and the existence
\* check; another process can write between this and the INSERT
register_check(w, f) ==
    /\ reg[w].pc = "form"
    /\ IF ~conn.up /\ RegInvalid(f) = ""
       THEN DB_raises
       ELSE /\ LET email == Text(Strip(f.email)) IN
               IF RegInvalid(f) # ""
               THEN /\ msg' = RegInvalid(f)
                    /\ reg' = [reg EXCEPT ![w] = [pc |-> "form", email |-> email, password |-> ""]]
               ELSE IF EmailExists(patients, email)
               THEN /\ msg' = "Email already registered."
                    /\ reg' = [reg EXCEPT ![w] = [pc |-> "form", email |-> email, password |-> ""]]
               ELSE /\ reg' = [reg EXCEPT ![w] = [pc |-> "checked", email |-> email,
                                                     password |-> Text(Strip(f.pw))]]
                    /\ UNCHANGED msg
            /\ UNCHANGED <<store, dlg, save, ptable, time_input, staff, pw, boot>>
            /\ conn' = IF RegInvalid(f) # "" THEN conn
                       ELSE IF EmailExists(patients, Text(Strip(f.email)))
                       THEN Closed(Opened(conn))
                       ELSE Opened(conn)

\* register_action from hash_password on: the INSERT, under UNIQUE(email)
register_insert(w) ==
    /\ reg[w].pc = "checked"
    /\ IF EmailTaken(patients, reg[w].email)
       THEN /\ msg' = "Registration failed"
            /\ reg' = [reg EXCEPT ![w].pc = "form"]
            /\ UNCHANGED <<patients, nextId>>
       ELSE /\ nextId.patients <= MaxAccounts
            /\ patients' = patients \cup {[id |-> nextId.patients, email |-> reg[w].email,
                                     password |-> StoredHash(reg[w].password)]}
            /\ nextId' = Bump("patients")
            /\ msg' = "Registration completed successfully."
            /\ reg' = [reg EXCEPT ![w].pc = "success"]
    /\ conn' = Closed(conn)
    /\ UNCHANGED <<services, appointments, transactions, dlg, save, ptable,
                   time_input, staff, pw, boot>>

-----------------------------------------------------------------------------
(* portal_ui.py: ClinicPortal.login_action *)

\* SELECT * FROM staff WHERE email=%s, SELECT * FROM patients WHERE email=%s
RowsByEmail(rows, e) == {r \in rows : r.email = e}

\* variant: a row with the email is enough
LoginMatchByEmail(rows, e, word) == RowsByEmail(rows, e)

\* staff and check_password(pw, staff[0]["password"]), and the same of patient
LoginMatch(rows, e, word) ==
    {r \in RowsByEmail(rows, e) : check_password(pw.lib, CodePoints(word), r.password)}

\* variant: the patient lookup is made first
LoginTargetPatientFirst(e, word) ==
    IF LoginMatch(patients, e, word) # {}
    THEN [pc |-> "patient_dashboard", rows |-> LoginMatch(patients, e, word), lookups |-> 1]
    ELSE IF LoginMatch(staff, e, word) # {}
    THEN [pc |-> "staff_dashboard", rows |-> LoginMatch(staff, e, word), lookups |-> 2]
    ELSE [pc |-> "form", rows |-> {}, lookups |-> 2]

\* the two lookups in their order: the window login_action shows, the row it
\* hands to the dashboard, and the SELECTs it made
LoginTarget(e, word) ==
    IF LoginMatch(staff, e, word) # {}
    THEN [pc |-> "staff_dashboard", rows |-> LoginMatch(staff, e, word), lookups |-> 1]
    ELSE IF LoginMatch(patients, e, word) # {}
    THEN [pc |-> "patient_dashboard", rows |-> LoginMatch(patients, e, word), lookups |-> 2]
    ELSE [pc |-> "form", rows |-> {}, lookups |-> 2]

\* ClinicPortal.login_action in window w on the texts f of the two fields
login_action(w, f) ==
    /\ reg[w].pc = "form"
    /\ LET email == Text(Strip(f.email))
           word == Text(Strip(f.pw))
       IN  IF email = "" \/ word = ""
           THEN /\ msg' = "Enter email and password."
                /\ reg' = [reg EXCEPT ![w] = [pc |-> "form", email |-> email, password |-> ""]]
                /\ conn' = [conn EXCEPT !.ret = [NoRet EXCEPT !.kind = "login"]]
                /\ UNCHANGED <<store, dlg, save, ptable, time_input, staff, pw, boot>>
           ELSE IF ~conn.up
           THEN DB_raises
           ELSE /\ msg' = IF LoginTarget(email, word).pc = "form"
                          THEN "Invalid credentials." ELSE msg
                /\ reg' = [reg EXCEPT ![w] = [pc |-> LoginTarget(email, word).pc,
                                              email |-> email, password |-> ""]]
                /\ conn' = [Closed(Opened(conn)) EXCEPT
                               !.ret = [NoRet EXCEPT !.kind = "login",
                                                     !.rows = LoginTarget(email, word).rows,
                                                     !.count = LoginTarget(email, word).lookups]]
                /\ UNCHANGED <<store, dlg, save, ptable, time_input, staff, pw, boot>>

\* StaffDashboard.logout, PatientDashboard.logout: login_action passes no
\* portal_parent, so the dashboard closes and the hidden portal stays hidden
logout(w) ==
    /\ reg[w].pc \in {"staff_dashboard", "patient_dashboard"}
    /\ reg' = [reg EXCEPT ![w].pc = "closed"]
    /\ UNCHANGED <<store, dlg, save, ptable, msg, time_input, staff, conn, pw, boot>>

\* main.py run again: a new portal window on its login page
portal_start(w) ==
    /\ reg[w].pc = "closed"
    /\ reg' = [reg EXCEPT ![w] = RegIdle]
    /\ UNCHANGED <<store, dlg, save, ptable, msg, time_input, staff, conn, pw, boot>>

-----------------------------------------------------------------------------
(* db.py: seed_defaults on the store as it finds it *)

\* INSERT statements of a run that finds the three tables empty
SeedInserts == Len(SeedStaffEmails) + 1 + Len(SeedPrices)

\* variant: no guard, every run inserts the defaults
SeedGuardsNone == [staff |-> TRUE, patients |-> TRUE, services |-> TRUE]

\* variant: one guard, on the staff table, for the three inserts
SeedGuardsJoint ==
    [staff |-> staff = {}, patients |-> staff = {}, services |-> staff = {}]

\* if not db.query("SELECT id FROM staff") / patients / services
SeedGuards ==
    [staff |-> staff = {}, patients |-> patients = {}, services |-> services = {}]

\* the tables after one run; fail is the position, among the INSERTs the run
\* executes, of the one at which the store raises (0: none does).  Every INSERT
\* commits on its own and nothing catches the exception.
SeedOutcome(fail) ==
    LET ok == IF fail = 0 THEN SeedInserts ELSE fail - 1
        w1 == IF SeedGuards.staff THEN Len(SeedStaffEmails) ELSE 0
        n1 == Min(w1, ok)
        w2 == IF n1 < w1 THEN 0 ELSE IF SeedGuards.patients THEN 1 ELSE 0
        n2 == Min(w2, ok - n1)
        w3 == IF n1 < w1 \/ n2 < w2 THEN 0
              ELSE IF SeedGuards.services THEN Len(SeedPrices) ELSE 0
        n3 == Min(w3, ok - n1 - n2)
    IN  [staff |-> staff \cup {[id |-> nextId.staff + i - 1,
                                email |-> SeedStaffEmails[i],
                                password |-> StoredHash("staff123")] : i \in 1..n1},
         patients |-> patients \cup {[id |-> nextId.patients + i - 1,
                                      email |-> "patient1@clinic.local",
                                      password |-> StoredHash("patient123")] :
                                         i \in 1..n2},
         services |-> services \cup {[id |-> nextId.services + i - 1,
                                      price |-> SeedPrices[i]] : i \in 1..n3},
         nextId |-> [nextId EXCEPT !.staff = @ + n1, !.patients = @ + n2,
                                   !.services = @ + n3],
         raised |-> n1 < w1 \/ n2 < w2 \/ n3 < w3]

SeedFails == 0..SeedInserts

\* seed_defaults(), run from `python db.py` or by main
seed_defaults(fail) ==
    /\ boot.runs < MaxRuns
    /\ LET out == SeedOutcome(fail) IN
          /\ staff' = out.staff
          /\ patients' = out.patients
          /\ services' = out.services
          /\ nextId' = out.nextId
    /\ boot' = [boot EXCEPT !.runs = @ + 1]
    /\ UNCHANGED <<appointments, transactions, dlg, save, ptable, msg, time_input,
                   reg, conn, pw>>

-----------------------------------------------------------------------------
(* db.py: calls of hash_password and check_password *)

hash_password_call(q, salt) ==
    /\ pw.pc = "idle"
    /\ pw' = [pw EXCEPT !.pc = "hashed", !.plain = q,
                        !.hashed = hash_password(pw.lib, q, salt)]
    /\ UNCHANGED <<patients, services, appointments, transactions, nextId,
                   dlg, save, ptable, msg, time_input, staff, reg, conn, boot>>

check_password_call(p) ==
    /\ pw.pc = "hashed"
    /\ ~pw.hashed.raised
    /\ pw' = [pw EXCEPT !.pc = "checked", !.other = p,
                        !.ok = check_password(pw.lib, p, pw.hashed)]
    /\ UNCHANGED <<patients, services, appointments, transactions, nextId,
                   dlg, save, ptable, msg, time_input, staff, reg, conn, boot>>

\* the next registration or login starts from a fresh call
password_done ==
    /\ pw.pc \in {"hashed", "checked"}
    /\ pw' = [NoPw EXCEPT !.lib = pw.lib]
    /\ UNCHANGED <<patients, services, appointments, transactions, nextId,
                   dlg, save, ptable, msg, time_input, staff, reg, conn, boot>>

-----------------------------------------------------------------------------
(* db.py: DB.__init__ and _create_db, create_tables; main.py.  boot.pc is   *)
(* the place of the process, boot.caller the function that called DB(),     *)
(* boot.connects and boot.creates count the get_conn(DB_NAME) and           *)
(* _create_db calls of the current DB(), boot.database tells whether        *)
(* clinic_management exists on the server.                                  *)

CreateOutcomes == {"ok", "denied"}       \* CREATE DATABASE IF NOT EXISTS
MainCallers == {"create_tables", "seed_defaults"}

\* python main.py
main_start ==
    /\ boot.pc \in {"start", "exited"}
    /\ boot.runs < MaxRuns
    /\ boot' = [boot EXCEPT !.pc = "create_tables", !.caller = "create_tables",
                            !.runs = @ + 1, !.exit = -1, !.fatal = FALSE,
                            !.portal = FALSE, !.connects = 0, !.creates = 0]
    /\ UNCHANGED <<patients, services, appointments, transactions, nextId,
                   dlg, save, ptable, msg, time_input, staff, reg, conn, pw>>

\* create_tables: DB(use_db=False); db._create_db(); db.close(); then DB()
create_tables_create_db(c) ==
    /\ boot.pc = "create_tables"
    /\ boot' = IF conn.up /\ c = "ok"
               THEN [boot EXCEPT !.pc = "DB", !.database = TRUE]
               ELSE [boot EXCEPT !.pc = "raised"]
    /\ UNCHANGED <<patients, services, appointments, transactions, nextId,
                   dlg, save, ptable, msg, time_input, staff, reg, conn, pw>>

\* DB.__init__: get_conn(DB_NAME) and the except clause's choice
FirstConnect ==
    IF ~conn.up THEN "raised"
    ELSE IF ~boot.database THEN "bad_db"
    ELSE "opened"

DB_init_connect ==
    /\ boot.pc = "DB"
    /\ boot' = [boot EXCEPT !.pc = FirstConnect, !.connects = 1, !.creates = 0]
    /\ UNCHANGED <<patients, services, appointments, transactions, nextId,
                   dlg, save, ptable, msg, time_input, staff, reg, conn, pw>>

\* DB._create_db, called by the except clause
DB_create_db(c) ==
    /\ boot.pc = "bad_db"
    /\ boot' = IF conn.up /\ c = "ok"
               THEN [boot EXCEPT !.pc = "retry", !.creates = @ + 1,
                                 !.database = TRUE]
               ELSE [boot EXCEPT !.pc = "raised", !.creates = @ + 1]
    /\ UNCHANGED <<patients, services, appointments, transactions, nextId,
                   dlg, save, ptable, msg, time_input, staff, reg, conn, pw>>

\* variant: a failed second get_conn(DB_NAME) is tried again
RetryConnectAgain == IF conn.up /\ boot.database THEN "opened" ELSE "retry"

\* the second get_conn(DB_NAME), inside the except clause: its error leaves
\* DB.__init__
RetryConnect == IF conn.up /\ boot.database THEN "opened" ELSE "raised"

DB_init_retry ==
    /\ boot.pc = "retry"
    /\ boot' = [boot EXCEPT !.pc = RetryConnect, !.connects = @ + 1]
    /\ UNCHANGED <<patients, services, appointments, transactions, nextId,
                   dlg, save, ptable, msg, time_input, staff, reg, conn, pw>>

\* create_tables: the CREATE TABLE IF NOT EXISTS statements, db.close();
\* seed_defaults then opens its own DB()
create_tables_tables ==
    /\ boot.pc = "opened"
    /\ boot.caller = "create_tables"
    /\ boot' = IF conn.up /\ boot.database
               THEN [boot EXCEPT !.pc = "DB", !.caller = "seed_defaults"]
               ELSE [boot EXCEPT !.pc = "raised"]
    /\ UNCHANGED <<patients, services, appointments, transactions, nextId,
                   dlg, save, ptable, msg, time_input, staff, reg, conn, pw>>

\* seed_defaults after its DB(), then main: QApplication, ClinicPortal, show
main_seed_defaults(fail) ==
    /\ boot.pc = "opened"
    /\ boot.caller = "seed_defaults"
    /\ IF conn.up /\ boot.database
       THEN LET out == SeedOutcome(fail) IN
               /\ staff' = out.staff
               /\ patients' = out.patients
               /\ services' = out.services
               /\ nextId' = out.nextId
               /\ boot' = IF out.raised
                          THEN [boot EXCEPT !.pc = "raised"]
                          ELSE [boot EXCEPT !.pc = "portal", !.caller = "none",
                                            !.portal = TRUE]
       ELSE /\ boot' = [boot EXCEPT !.pc = "raised"]
            /\ UNCHANGED <<staff, patients, services, nextId>>
    /\ UNCHANGED <<appointments, transactions, dlg, save, ptable, msg, time_input,
                   reg, conn, pw>>

\* main: except Exception: QMessageBox.critical(None, "Error", str(e));
\* sys.exit(1)
main_except ==
    /\ boot.pc = "raised"
    /\ boot.caller \in MainCallers
    /\ boot' = [boot EXCEPT !.pc = "exited", !.fatal = TRUE, !.exit = 1]
    /\ msg' = "critical"
    /\ UNCHANGED <<patients, services, appointments, transactions, nextId,
                   dlg, save, ptable, time_input, staff, reg, conn, pw>>

\* ClinicPortal.login_action reaches its db = DB()
login_action_DB ==
    /\ boot.pc = "portal"
    /\ boot' = [boot EXCEPT !.pc = "DB", !.caller = "login_action"]
    /\ UNCHANGED <<patients, services, appointments, transactions, nextId,
                   dlg, save, ptable, msg, time_input, staff, reg, conn, pw>>

\* login_action goes on with the DB object and closes it, or the error of
\* DB() leaves the handler
login_action_return ==
    /\ boot.pc \in {"opened", "raised"}
    /\ boot.caller = "login_action"
    /\ boot' = [boot EXCEPT !.pc = "portal", !.caller = "none"]
    /\ conn' = IF boot.pc = "raised" THEN [conn EXCEPT !.escaped = TRUE]
               ELSE Closed(Opened(conn))
    /\ UNCHANGED <<patients, services, appointments, transactions, nextId,
                   dlg, save, ptable, msg, time_input, staff, reg, pw>>

\* the last window is closed: sys.exit(app.exec())
main_exit ==
    /\ boot.pc = "portal"
    /\ boot' = [boot EXCEPT !.pc = "exited", !.exit = 0]
    /\ UNCHANGED <<patients, services, appointments, transactions, nextId,
                   dlg, save, ptable, msg, time_input, staff, reg, conn, pw>>

\* DROP DATABASE clinic_management, by the server's administrator
drop_database ==
    /\ conn.up
    /\ boot.database
    /\ boot' = [boot EXCEPT !.database = FALSE]
    /\ patients' = {} /\ services' = {} /\ appointments' = {}
    /\ transactions' = {} /\ staff' = {}
    /\ nextId' = [staff |-> 1, patients |-> 1, services |-> 1,
                  appointments |-> 1, transactions |-> 1]
    /\ UNCHANGED <<dlg, save, ptable, msg, time_input, reg, conn, pw>>

-----------------------------------------------------------------------------
(* db.py: DB.query on the services table.  services is what is committed,  *)
(* conn.view what the open DB object sees (its own uncommitted writes       *)
(* included), conn.dirty the number of its uncommitted writes, conn.ret     *)
(* the value of the last call and the commit argument it was given.  The    *)
(* connector opens every connection with                                    *)
(* autocommit off; conn.app tells the DB objects of the application's       *)
(* handlers from a DB object used directly.                                 *)

\* str.lower on the first word of the statements issued
Lower(w) == IF w \in {"SELECT", "Select", "select"} THEN "select"
            ELSE IF w \in {"INSERT", "insert"} THEN "insert"
            ELSE IF w \in {"UPDATE", "update"} THEN "update"
            ELSE IF w \in {"DELETE", "delete"} THEN "delete"
            ELSE w

\* sql.strip().lower().startswith("select")
StartsWithSelect(sql) ==
    LET s == Strip(sql) IN s # <<>> /\ Lower(s[1]) = "select"

\* cur.execute on the rows the connection sees; next is AUTO_INCREMENT
Execute(stmt, rows, next) ==
    LET s == Strip(stmt.sql)
        verb == IF s = <<>> THEN "" ELSE Lower(s[1])
    IN  IF verb = "update"
        THEN {IF r.id = stmt.id THEN [r EXCEPT !.price = stmt.price] ELSE r : r \in rows}
        ELSE IF verb = "delete" THEN {r \in rows : r.id # stmt.id}
        ELSE IF verb = "insert" THEN rows \cup {[id |-> next, price |-> stmt.price]}
        ELSE rows

IsInsert(stmt) ==
    LET s == Strip(stmt.sql) IN s # <<>> /\ Lower(s[1]) = "insert"

\* db = DB() for a run of queries
query_DB(app) ==
    /\ conn.up
    /\ conn.open = 0
    /\ conn' = [Opened(conn) EXCEPT !.app = app, !.view = services, !.dirty = 0,
                                    !.ret = NoRet]
    /\ UNCHANGED <<patients, services, appointments, transactions, nextId,
                   dlg, save, ptable, msg, time_input, staff, reg, pw, boot>>

\* variant: the connection is opened with autocommit on
DB_query_autocommit(stmt, commit) ==
    /\ conn.open = 1
    /\ IF StartsWithSelect(stmt.sql)
       THEN /\ conn' = [conn EXCEPT !.ret = [NoRet EXCEPT !.kind = "rows", !.rows = conn.view, !.commit = commit]]
            /\ UNCHANGED <<services, nextId>>
       ELSE /\ IsInsert(stmt) => nextId.services <= Len(SeedPrices) + MaxNewServices
            /\ LET view == Execute(stmt, conn.view, nextId.services) IN
                  /\ nextId' = IF IsInsert(stmt) THEN Bump("services") ELSE nextId
                  /\ services' = view
                  /\ conn' = [conn EXCEPT !.view = view, !.dirty = 0,
                                          !.ret = [NoRet EXCEPT !.kind = "success", !.commit = commit]]
    /\ UNCHANGED <<patients, appointments, transactions,
                   dlg, save, ptable, msg, time_input, staff, reg, pw, boot>>

\* DB.query(sql, params, commit)
DB_query(stmt, commit) ==
    /\ conn.open = 1
    /\ IF StartsWithSelect(stmt.sql)
       THEN /\ conn' = [conn EXCEPT !.ret = [NoRet EXCEPT !.kind = "rows", !.rows = conn.view, !.commit = commit]]
            /\ UNCHANGED <<services, nextId>>
       ELSE /\ IsInsert(stmt) => nextId.services <= Len(SeedPrices) + MaxNewServices
            /\ ~commit => conn.dirty < MaxDirty
            /\ LET view == Execute(stmt, conn.view, nextId.services) IN
                  /\ nextId' = IF IsInsert(stmt) THEN Bump("services") ELSE nextId
                  /\ services' = IF commit THEN view ELSE services
                  /\ conn' = [conn EXCEPT !.view = view,
                                          !.dirty = IF commit THEN 0 ELSE @ + 1,
                                          !.ret = [NoRet EXCEPT !.kind = "success", !.commit = commit]]
    /\ UNCHANGED <<patients, appointments, transactions,
                   dlg, save, ptable, msg, time_input, staff, reg, pw, boot>>

\* DB.close: the server rolls back what the connection left uncommitted
DB_close ==
    /\ conn.open = 1
    /\ conn' = [Closed(conn) EXCEPT !.view = {}, !.dirty = 0, !.ret = NoRet]
    /\ UNCHANGED <<patients, services, appointments, transactions, nextId,
                   dlg, save, ptable, msg, time_input, staff, reg, pw, boot>>

-----------------------------------------------------------------------------
(* patient_dashboard.py: the read-only lookups of the dashboard.  conn.ret  *)
(* keeps what the last lookup returned: rows for the rows (or their dates), *)
(* count for the number, raised when the exception left the lookup, failed  *)
(* when db.query raised.  The rows carry no date column: every stored       *)
(* appointment counts as dated today or later.                              *)

LookupKinds == {"dates", "next", "count", "recent"}

Joined(p) == {a \in appointments : a.patient_id = p /\ HasId(services, a.service_id)}

\* the value each lookup returns when its query succeeds
LookupResult(kind, p) ==
    IF kind = "dates"
    THEN [NoRet EXCEPT !.kind = kind,
             !.rows = {a.id : a \in {b \in appointments :
                                       b.patient_id = p /\ b.status # "Cancelled"}}]
    ELSE IF kind = "next"
    THEN [NoRet EXCEPT !.kind = kind,
             !.rows = {a.id : a \in {b \in Joined(p) :
                                       \A c \in Joined(p) : b.id <= c.id}}]
    ELSE IF kind = "count"
    THEN [NoRet EXCEPT !.kind = kind,
             !.count = Cardinality({a \in appointments :
                                      a.patient_id = p /\ a.status = "Confirmed"})]
    ELSE [NoRet EXCEPT !.kind = kind,
             !.rows = {a.id : a \in {b \in Joined(p) : b.status = "Completed"}}]

\* except Exception: print(...); return set() / None / 0 / []
LookupEmpty(kind) == [NoRet EXCEPT !.kind = kind, !.failed = TRUE]

\* db = DB(); try: db.query(SELECT ...) except ... finally: db.close()
Lookup(kind, p, fails) ==
    /\ p < nextId.patients
    /\ conn' = IF ~conn.up
               THEN [conn EXCEPT !.escaped = TRUE,
                                 !.ret = [NoRet EXCEPT !.kind = kind, !.raised = TRUE]]
               ELSE [Closed(Opened(conn)) EXCEPT
                        !.ret = IF fails THEN LookupEmpty(kind)
                                ELSE LookupResult(kind, p)]
    /\ UNCHANGED <<patients, services, appointments, transactions, nextId,
                   dlg, save, ptable, msg, time_input, staff, reg, pw, boot>>

get_appointment_dates(p, fails) == Lookup("dates", p, fails)

get_next_appointment(p, fails) == Lookup("next", p, fails)

get_confirmed_count(p, fails) == Lookup("count", p, fails)

get_recent_completed(p, fails) == Lookup("recent", p, fails)

-----------------------------------------------------------------------------
(* Inputs *)

Replies == {"Yes", "No"}

\* texts of the time field tried by the handlers of Spec and SpecConc, with the
\* sql_mode of the server (it matters only to a text that is no ASCII HH:MM)
TimeSamples ==
    { [text |-> <<"1", "4", ":", "3", "0">>, strict |-> TRUE],
      [text |-> <<"2", "4", ":", "0", "0">>, strict |-> TRUE],
      [text |-> <<"1", ArabicThree, ":", "0", "0">>, strict |-> TRUE],
      [text |-> <<"1", ArabicThree, ":", "0", "0">>, strict |-> FALSE] }

TimeAlphabet == {"1", "2", "4", "6", ":", ArabicThree}

Pads == {<<>>, <<" ">>}

\* every text of at most MaxTimeLen characters of TimeAlphabet, alone or
\* with a blank before and/or after it
TimeStrings ==
    {l \o c \o r :
        l \in Pads, r \in Pads,
        c \in UNION {[1..k -> TimeAlphabet] : k \in 0..MaxTimeLen}}

\* texts of the registration form
RegNames == {<<>>, <<" ">>, <<"Juan Dela Cruz">>}
RegAges == {<<"0">>, <<"7">>, <<"1", "2", "0">>, <<"1", "2", "1">>}
RegEmails == {<<" ">>, <<"new@clinic.local">>, <<" ", "new@clinic.local", " ">>,
              <<"patient1@clinic.local">>}
RegPasswords == {<<>>, <<"pw1">>, <<"pw1", " ">>, <<"pw2">>}

\* a form that passes every validation, and the forms that differ from it in
\* one field
ValidForm ==
    [name |-> <<"Juan Dela Cruz">>, age |-> <<"7">>, email |-> <<"new@clinic.local">>,
     pw |-> <<"pw1">>, confirm |-> <<"pw1">>]

RegForms ==
    {[ValidForm EXCEPT !.name = x] : x \in RegNames}
        \cup {[ValidForm EXCEPT !.age = x] : x \in RegAges}
        \cup {[ValidForm EXCEPT !.email = x] : x \in RegEmails}
        \cup {[ValidForm EXCEPT !.pw = x] : x \in RegPasswords}
        \cup {[ValidForm EXCEPT !.confirm = x] : x \in RegPasswords}

-----------------------------------------------------------------------------
(* Specifications *)

PatientActions ==
    \/ \E p \in PatientIds : show_my_appointments(p)
    \/ \E p \in PatientIds, svc \in ModelServiceIds, tm \in TimeSamples :
          BookingDialog_book(p, svc, tm.text, tm.strict)
    \/ \E p \in PatientIds, a \in 1..MaxAppts, reply \in Replies :
          cancel_appointment(p, a, reply)

StaffActions ==
    \/ \E e \in Emails : add_patient_save(e)
    \/ \E pid \in PatientIds, reply \in Replies : delete_patient(pid, reply)
    \/ \E sid \in EditedServiceIds, reply \in Replies : delete_service(sid, reply)
    \/ \E aid \in 1..MaxAppts, reply \in Replies : delete_appointment(aid, reply)
    \/ \E sid \in EditedServiceIds, text \in PriceTexts :
          EditServiceDialog_save(sid, text)
    \/ \E pid \in PatientIds \cup {Null}, sid \in ModelServiceIds, tm \in TimeSamples :
          add_appointment_save(pid, sid, tm.text, tm.strict)

\* handlers run one at a time
Next ==
    \/ PatientActions
    \/ StaffActions
    \/ \E a \in appointments : open_edit_appointment("staffA", a)
    \/ close_edit_appointment("staffA")
    \/ \E s \in Sessions, st \in Statuses, fail \in FailPoints :
          EditAppointmentDialog_save(s, st, fail)

Spec == Init /\ [][Next]_vars

\* staff status edits interleave statement by statement, with each other and
\* with bookings and deletions of appointments
NextConc ==
    \/ \E svc \in ModelServiceIds, tm \in TimeSamples :
          BookingDialog_book(1, svc, tm.text, tm.strict)
    \/ \E aid \in 1..MaxAppts, reply \in Replies : delete_appointment(aid, reply)
    \/ \E s \in Sessions, a \in appointments : open_edit_appointment(s, a)
    \/ \E s \in Sessions : close_edit_appointment(s)
    \/ \E s \in Sessions, st \in Statuses, fail \in BOOLEAN : save_update(s, st, fail)
    \/ \E s \in Sessions, fail \in BOOLEAN : save_select_existing(s, fail)
    \/ \E s \in Sessions, fail \in BOOLEAN : save_select_price(s, fail)
    \/ \E s \in Sessions, fail \in BOOLEAN : save_insert(s, fail)

SpecConc == Init /\ [][NextConc]_vars

\* the booking dialog of the seeded patient, over every text of TimeStrings
InitBook == InitStore /\ InitUi /\ InitExtra /\ time_input \in TimeStrings

NextBook ==
    \E svc \in ModelServiceIds, strict \in BOOLEAN :
        BookingDialog_book(1, svc, time_input, strict)

SpecBook == InitBook /\ [][NextBook]_vars

\* startups and `python db.py` runs on a store that begins empty, between
\* deletions of patients and of the first service
InitSeed ==
    /\ patients = {} /\ services = {} /\ appointments = {} /\ transactions = {}
    /\ staff = {}
    /\ nextId = [staff |-> 1, patients |-> 1, services |-> 1,
                 appointments |-> 1, transactions |-> 1]
    /\ InitUi /\ time_input = <<>>
    /\ reg = [w \in Windows |-> RegIdle]
    /\ conn = NoConn /\ pw = NoPw /\ boot = NoBoot

NextSeed ==
    \/ \E fail \in SeedFails : seed_defaults(fail)
    \/ \E pid \in PatientIds, reply \in Replies : delete_patient(pid, reply)
    \/ \E sid \in EditedServiceIds, reply \in Replies : delete_service(sid, reply)

SpecSeed == InitSeed /\ [][NextSeed]_vars

\* a portal window registers patients; they book, and staff edits the status
AccountIds == 1..MaxAccounts
RegisteredIds == 2..MaxAccounts           \* ids the registrations receive

NextPortal ==
    \/ \E f \in RegForms : register_action("portalA", f)
    \/ show_login("portalA")
    \/ \E p \in RegisteredIds, svc \in ModelServiceIds, tm \in TimeSamples :
          BookingDialog_book(p, svc, tm.text, tm.strict)
    \/ \E a \in appointments : open_edit_appointment("staffA", a)
    \/ close_edit_appointment("staffA")
    \/ \E st \in Statuses, fail \in FailPoints :
          EditAppointmentDialog_save("staffA", st, fail)

SpecPortal == Init /\ [][NextPortal]_vars

\* the writers of patients.email, registrations interleaving at their SELECT
EmailTexts == Emails \cup {""}            \* texts of EditPatientDialog's email field

NextReg ==
    \/ \E w \in Windows, f \in RegForms : register_check(w, f)
    \/ \E w \in Windows : register_insert(w)
    \/ \E w \in Windows : show_login(w)
    \/ \E e \in EmailTexts : staff_add_patient(e, MaxAccounts)
    \/ \E pid \in AccountIds, e \in EmailTexts : EditPatientDialog_save(pid, e)
    \/ \E p \in AccountIds, nm \in RegNames, em \in RegEmails :
          ProfileDialog_save(p, nm, em)

SpecReg == Init /\ [][NextReg]_vars

\* the write handlers of the seeded patient, of the staff and of the portal,
\* while the server stops and starts
ConnTimes == {tm \in TimeSamples : tm.strict}
ConnForms == {ValidForm, [ValidForm EXCEPT !.name = <<>>]}
ConnEmails == {<<" ">>, <<"new@clinic.local">>}
ConnStatuses == {"Completed", "Cancelled"}
ConnFails == {"none", "insert"}

NextConn ==
    \/ server_stops
    \/ server_starts
    \/ \E f \in ConnForms : register_action("portalA", f)
    \/ show_login("portalA")
    \/ \E tm \in ConnTimes : BookingDialog_book(1, OralProphylaxis, tm.text, tm.strict)
    \/ \E a \in 1..MaxAppts, reply \in Replies : cancel_appointment(1, a, reply)
    \/ \E em \in ConnEmails : ProfileDialog_save(1, ValidForm.name, em)
    \/ EditPatientDialog_save(1, "new@clinic.local")
    \/ \E reply \in Replies : delete_patient(1, reply)
    \/ \E aid \in 1..MaxAppts, reply \in Replies : delete_appointment(aid, reply)
    \/ \E a \in appointments : open_edit_appointment("staffA", a)
    \/ close_edit_appointment("staffA")
    \/ \E st \in ConnStatuses, fail \in ConnFails :
          EditAppointmentDialog_save("staffA", st, fail)

SpecConn == Init /\ [][NextConn]_vars

\* plaintexts around the limit of bcrypt: 97 'a', 98 'b', 233 and 227 are
\* two-byte code points
Rep(cp, n) == [i \in 1..n |-> cp]

Plaintexts ==
    { <<>>, <<112, 119, 49>>, <<112, 119, 50>>,
      Rep(97, BcryptLimit - 1), Rep(97, BcryptLimit),
      Rep(97, BcryptLimit) \o <<97>>, Rep(97, BcryptLimit) \o <<98>>,
      Rep(233, BcryptLimit \div 2), Rep(233, BcryptLimit \div 2) \o <<97>>,
      Rep(97, BcryptLimit - 1) \o <<233>>, Rep(97, BcryptLimit - 1) \o <<227>> }

InitPw ==
    /\ InitStore /\ InitUi /\ time_input = <<>>
    /\ staff = SeedStaff
    /\ reg = [w \in Windows |-> RegIdle]
    /\ conn = NoConn
    /\ boot = NoBoot
    /\ pw \in {[NoPw EXCEPT !.lib = l] : l \in BcryptBuilds}

NextPw ==
    \/ \E q \in Plaintexts, salt \in Salts : hash_password_call(q, salt)
    \/ \E p \in Plaintexts : check_password_call(p)
    \/ password_done

SpecPw == InitPw /\ [][NextPw]_vars

\* a server without the database; the fifth INSERT of a first run is the
\* sample patient's
StartFails == {0, Len(SeedStaffEmails) + 1}

InitStart ==
    /\ patients = {} /\ services = {} /\ appointments = {} /\ transactions = {}
    /\ staff = {}
    /\ nextId = [staff |-> 1, patients |-> 1, services |-> 1,
                 appointments |-> 1, transactions |-> 1]
    /\ InitUi /\ time_input = <<>>
    /\ reg = [w \in Windows |-> RegIdle]
    /\ conn = NoConn /\ pw = NoPw
    /\ boot = [NoBoot EXCEPT !.database = FALSE]

NextStart ==
    \/ server_stops
    \/ server_starts
    \/ drop_database
    \/ main_start
    \/ \E c \in CreateOutcomes : create_tables_create_db(c)
    \/ DB_init_connect
    \/ \E c \in CreateOutcomes : DB_create_db(c)
    \/ DB_init_retry
    \/ create_tables_tables
    \/ \E fail \in StartFails : main_seed_defaults(fail)
    \/ main_except
    \/ login_action_DB
    \/ login_action_return
    \/ main_exit

SpecStart == InitStart /\ [][NextStart]_vars

\* statements on the services table as the handlers write them (a leading
\* blank run where the text is a triple-quoted block)
QueryIds == {OralProphylaxis, Len(SeedPrices) + 1}

Statements ==
    {[sql |-> <<"SELECT">>, id |-> Null, price |-> 0],
     [sql |-> <<" ", "SELECT">>, id |-> Null, price |-> 0]}
    \cup {[sql |-> <<"UPDATE">>, id |-> i, price |-> v] : i \in QueryIds, v \in EditPrices}
    \cup {[sql |-> <<"DELETE">>, id |-> i, price |-> 0] : i \in QueryIds}
    \cup {[sql |-> <<"INSERT">>, id |-> Null, price |-> v] : v \in EditPrices}

\* a handler's call: every write of the handlers is written
\* db.query(..., commit=True)
handler_query(stmt) ==
    /\ conn.app
    /\ DB_query(stmt, TRUE)

\* a call on a DB object used directly
direct_query(stmt, commit) ==
    /\ ~conn.app
    /\ DB_query(stmt, commit)

NextQuery ==
    \/ \E app \in BOOLEAN : query_DB(app)
    \/ \E stmt \in Statements : handler_query(stmt)
    \/ \E stmt \in Statements, commit \in BOOLEAN : direct_query(stmt, commit)
    \/ DB_close

SpecQuery == Init /\ [][NextQuery]_vars

\* the seeded patient's dashboard looks up while the patient books, the
\* staff edits and the server stops and starts
NextLookup ==
    \/ server_stops
    \/ server_starts
    \/ \E fails \in BOOLEAN : get_appointment_dates(1, fails)
    \/ \E fails \in BOOLEAN : get_next_appointment(1, fails)
    \/ \E fails \in BOOLEAN : get_confirmed_count(1, fails)
    \/ \E fails \in BOOLEAN : get_recent_completed(1, fails)
    \/ \E tm \in ConnTimes : BookingDialog_book(1, OralProphylaxis, tm.text, tm.strict)
    \/ \E a \in appointments : open_edit_appointment("staffA", a)
    \/ close_edit_appointment("staffA")
    \/ \E st \in Statuses, fail \in ConnFails :
          EditAppointmentDialog_save("staffA", st, fail)

SpecLookup == Init /\ [][NextLookup]_vars

\* texts of the time field of the booking dialog and of the staff's Add
\* Appointment dialog; the text stays while Book or Save is pressed
AddTimes ==
    { <<>>, <<" ">>, <<"7">>, <<"9", "9">>, <<"1", "4", ":", "3", "0">>,
      <<" ", "1", "4", ":", "3", "0", " ">>, <<"2", "3", ":", "5", "9">>,
      <<"2", "4", ":", "0", "0">>, <<"1", "2", ":", "6", "0">>,
      <<"9", ":", "3", "0">>, <<"1", ArabicThree, ":", "0", "0">>,
      <<"a", "b", "c">> }

InitAdd == InitStore /\ InitUi /\ InitExtra /\ time_input \in AddTimes

NextAdd ==
    \/ \E svc \in ModelServiceIds, strict \in BOOLEAN :
          BookingDialog_book(1, svc, time_input, strict)
    \/ \E svc \in ModelServiceIds, strict \in BOOLEAN :
          add_appointment_save(1, svc, time_input, strict)
    \/ \E aid \in 1..MaxAppts, reply \in Replies : delete_appointment(aid, reply)

SpecAdd == InitAdd /\ [][NextAdd]_vars

\* the interleaved staff edits with no statement of a status edit failing
NextEdit ==
    \/ \E svc \in ModelServiceIds, tm \in TimeSamples :
          BookingDialog_book(1, svc, tm.text, tm.strict)
    \/ \E aid \in 1..MaxAppts, reply \in Replies : delete_appointment(aid, reply)
    \/ \E s \in Sessions, a \in appointments : open_edit_appointment(s, a)
    \/ \E s \in Sessions : close_edit_appointment(s)
    \/ \E s \in Sessions, st \in Statuses : save_update(s, st, FALSE)
    \/ \E s \in Sessions : save_select_existing(s, FALSE)
    \/ \E s \in Sessions : save_select_price(s, FALSE)
    \/ \E s \in Sessions : save_insert(s, FALSE)

SpecEdit == Init /\ [][NextEdit]_vars

\* the portal's login and registration in two windows, under either bcrypt build
SharedEmail == <<"maria.santos@clinic.local">>
LoginEmails == {<<>>, <<" ">> \o SharedEmail, <<"patient1@clinic.local">>,
                <<"new@clinic.local">>}
LoginPasswords == {<<" ">>, <<"staff123", " ">>, <<"patient123">>, <<"pw1">>}
LoginForms == [email : LoginEmails, pw : LoginPasswords]
LoginRegForms ==
    {ValidForm, [ValidForm EXCEPT !.email = SharedEmail],
     [ValidForm EXCEPT !.email = SharedEmail, !.pw = <<"staff123">>,
                       !.confirm = <<"staff123">>]}

NextLogin ==
    \/ \E w \in Windows, f \in LoginForms : login_action(w, f)
    \/ \E w \in Windows, f \in LoginRegForms : register_action(w, f)
    \/ \E w \in Windows : show_login(w)
    \/ \E w \in Windows : logout(w)
    \/ \E w \in Windows : portal_start(w)

SpecLogin == InitPw /\ [][NextLogin]_vars

\* the dashboards of the seeded patient and of a patient who registers, next
\* to a staff session that confirms and completes appointments
IsoStatuses == {"Confirmed", "Completed"}
IsoNames == {<<>>, <<"Juan Dela Cruz">>}
IsoEmails == {<<"new@clinic.local">>, <<"juan@clinic.local">>}
IsoTimes == {tm \in TimeSamples : tm.strict /\ tm.text[2] = "4"}

InitIso ==
    /\ InitStore /\ InitExtra /\ time_input = <<>>
    /\ dlg = [s \in Sessions |-> NoDlg]
    /\ save = [s \in Sessions |-> Idle]
    /\ ptable = [p \in AccountIds |-> {}]
    /\ msg = "none"

NextIso ==
    \/ register_action("portalA", ValidForm)
    \/ \E p \in AccountIds : show_my_appointments(p)
    \/ \E p \in AccountIds, svc \in EditedServiceIds, tm \in IsoTimes :
          BookingDialog_book(p, svc, tm.text, tm.strict)
    \/ \E p \in AccountIds, a \in 1..MaxAppts, reply \in Replies :
          cancel_appointment(p, a, reply)
    \/ \E p \in AccountIds, nm \in IsoNames, em \in IsoEmails :
          ProfileDialog_save(p, nm, em)
    \/ \E a \in appointments : open_edit_appointment("staffA", a)
    \/ close_edit_appointment("staffA")
    \/ \E st \in IsoStatuses : EditAppointmentDialog_save("staffA", st, "none")

SpecIso == InitIso /\ [][NextIso]_vars

-----------------------------------------------------------------------------
(* Properties *)

TxnsOfPair(txns, pid, sid) ==
    {t \in txns : t.patient_id = pid /\ t.service_id = sid}

HasRow(rows, id) == \E r \in rows : r.id = id

\* C1: a staff status edit that sets an existing appointment to Completed when
\* its (patient_id, service_id) pair has no Transaction inserts exactly one
\* Transaction for that pair, with the price the service has at that moment
C1_CompletedBillsCurrentPrice ==
    [][\A s \in Sessions :
          ( /\ dlg[s] # NoDlg
            /\ HasRow(appointments, dlg[s].id)
            /\ TxnsOfPair(transactions, dlg[s].patient_id, dlg[s].service_id) = {}
            /\ EditAppointmentDialog_save(s, "Completed", "none") )
          => \E t \in transactions' \ transactions :
                /\ transactions' = transactions \cup {t}
                /\ t.patient_id = dlg[s].patient_id
                /\ t.service_id = dlg[s].service_id
                /\ \E v \in services : v.id = t.service_id /\ v.price = t.amount
                /\ \E a \in appointments' :
                      a.id = dlg[s].id /\ a.status = "Completed"
      ]_vars

\* C1 witness: a Completed appointment billed at a price edited after seeding
C1_Witness ==
    \E a \in appointments, t \in transactions, v \in services :
        /\ a.status = "Completed"
        /\ t.patient_id = a.patient_id /\ t.service_id = a.service_id
        /\ v.id = a.service_id /\ v.price = t.amount
        /\ t.amount # SeedPrices[v.id]

\* C2: when a Transaction exists for a (patient_id, service_id) pair, setting an
\* appointment of that pair to Completed inserts no Transaction
C2_NoSecondTransaction ==
    [][\A s \in Sessions, fail \in FailPoints :
          ( /\ dlg[s] # NoDlg
            /\ TxnsOfPair(transactions, dlg[s].patient_id, dlg[s].service_id) # {}
            /\ EditAppointmentDialog_save(s, "Completed", fail) )
          => transactions' = transactions
      ]_vars

\* C2 witness: two Completed appointments of one pair and a single Transaction
C2_Witness ==
    \E a \in appointments, b \in appointments :
        /\ a.id # b.id
        /\ a.patient_id = b.patient_id /\ a.service_id = b.service_id
        /\ a.status = "Completed" /\ b.status = "Completed"
        /\ Cardinality(TxnsOfPair(transactions, a.patient_id, a.service_id)) = 1

\* C3: with handlers run one at a time, every reachable state has at most one
\* Transaction per (patient_id, service_id) pair
C3_AtMostOneTransactionPerPair ==
    \A t \in transactions, u \in transactions :
        (t.patient_id = u.patient_id /\ t.service_id = u.service_id) => t.id = u.id

\* C3 witness: two Transactions, of two different pairs
C3_Witness == Cardinality(transactions) = 2

\* C4: under interleaved staff edits, a save that found no Transaction for its
\* pair inserts one when its INSERT runs, whatever other sessions inserted
\* since its check; a state with two Transactions of one pair is reachable
C4_InsertAfterStaleCheck ==
    [][\A s \in Sessions :
          (save[s].pc = "priced" /\ save'[s].pc = "idle" /\ msg' = "info")
          => \E t \in transactions' \ transactions :
                /\ t.patient_id = dlg[s].patient_id
                /\ t.service_id = dlg[s].service_id
      ]_vars

\* C4 witness: two Transactions of the same (patient_id, service_id) pair
C4_Witness ==
    \E t \in transactions, u \in transactions :
        t.id # u.id /\ t.patient_id = u.patient_id /\ t.service_id = u.service_id

AllowedTransition(from, to) ==
    \/ from = "Pending" /\ to \in {"Confirmed", "Cancelled"}
    \/ from = "Confirmed" /\ to \in {"Completed", "Cancelled"}

\* C5: every change of an appointment's status follows Pending -> {Confirmed,
\* Cancelled}, Confirmed -> {Completed, Cancelled}; Completed and Cancelled
\* are terminal
C5_StatusTransitions ==
    [][\A a \in appointments, b \in appointments' :
          (a.id = b.id /\ a.status # b.status)
          => AllowedTransition(a.status, b.status)
      ]_vars

\* HH:MM with HH in 00..23 and MM in 00..59, in ASCII digits
IsHHMM(tm) ==
    /\ Len(tm) = 5
    /\ \A i \in {1, 2, 4, 5} : tm[i] \in AsciiDigits
    /\ tm[3] = ":"
    /\ \/ tm[1] \in {"0", "1"}
       \/ tm[1] = "2" /\ tm[2] \in {"0", "1", "2", "3"}
    /\ tm[4] \in {"0", "1", "2", "3", "4", "5"}

\* C6: booking accepts every HH:MM text in 00:00..23:59 (surrounding blanks
\* trimmed) and inserts the row; for every other text the appointments table
\* is left unchanged
C6_BookAcceptsExactlyHHMM ==
    [][\A svc \in ModelServiceIds, strict \in BOOLEAN :
          BookingDialog_book(1, svc, time_input, strict)
          => IF IsHHMM(Strip(time_input))
             THEN Cardinality(appointments') = Cardinality(appointments) + 1
             ELSE appointments' = appointments
      ]_vars

\* C7: every appointment row is created with status Pending, alone, and
\* without a Transaction; a successful patient booking creates exactly one row,
\* of the booking patient and the selected service
C7_CreatedPending ==
    [][/\ \A b \in appointments' :
             ~HasRow(appointments, b.id)
             => /\ b.status = "Pending"
                /\ appointments' = appointments \cup {b}
                /\ transactions' = transactions
       /\ \A p \in PatientIds, svc \in ModelServiceIds, tm \in TimeSamples :
             ( /\ msg' = "info"
               /\ BookingDialog_book(p, svc, tm.text, tm.strict) )
             => \E b \in appointments' \ appointments :
                   /\ appointments' = appointments \cup {b}
                   /\ b.patient_id = p /\ b.service_id = svc
                   /\ b.status = "Pending"
      ]_vars

\* C7 witness: a booked appointment, still Pending, and no Transaction
C7_Witness ==
    /\ msg = "info"
    /\ transactions = {}
    /\ \E a \in appointments : a.status = "Pending" /\ a.id \in ptable[a.patient_id]

\* C8: a patient cancel answered Yes sets the status of the appointment of the
\* given id to Cancelled and changes no other appointment, no Transaction, no
\* patient and no service; answered No it changes nothing
C8_CancelFrame ==
    [][\A p \in PatientIds, id \in 1..MaxAppts, reply \in Replies :
          ( /\ id \in ptable[p]
            /\ cancel_appointment(p, id, reply) )
          => /\ patients' = patients
             /\ services' = services
             /\ transactions' = transactions
             /\ IF reply = "Yes"
                THEN /\ \A a \in appointments : a.id # id => a \in appointments'
                     /\ \A b \in appointments' :
                           \/ b \in appointments /\ b.id # id
                           \/ /\ b.id = id /\ b.status = "Cancelled"
                              /\ \E a \in appointments :
                                    /\ a.id = id
                                    /\ a.patient_id = b.patient_id
                                    /\ a.service_id = b.service_id
                     /\ Cardinality(appointments') = Cardinality(appointments)
                ELSE appointments' = appointments /\ msg' = msg
      ]_vars

\* C8 witness: a Cancelled appointment whose pair has a Transaction, beside an
\* appointment that is not Cancelled
C8_Witness ==
    \E a \in appointments, b \in appointments :
        /\ a.status = "Cancelled" /\ b.status \notin {"Cancelled"}
        /\ TxnsOfPair(transactions, a.patient_id, a.service_id) # {}
        /\ msg = "info"
        /\ a.id \notin ptable[a.patient_id]

\* C9: when the UPDATE of a status edit to Completed has committed and a later
\* statement fails (the existence check; or, no Transaction of the pair
\* existing, the price lookup or the INSERT, the latter also on a missing
\* parent row), the error is reported, the appointment stays Completed, the
\* edit creates no Transaction, and the dialog is left open with no retry
C9_NoRollback ==
    [][\A s \in Sessions, fail \in FailPoints \ {"update"} :
          ( /\ dlg[s] # NoDlg
            /\ \/ fail = "select_existing"
               \/ /\ TxnsOfPair(transactions, dlg[s].patient_id,
                                dlg[s].service_id) = {}
                  /\ \/ fail \in {"select_price", "insert"}
                     \/ ~HasRow(patients, dlg[s].patient_id)
                     \/ ~HasRow(services, dlg[s].service_id)
            /\ EditAppointmentDialog_save(s, "Completed", fail) )
          => /\ msg' = "critical"
             /\ \A a \in appointments :
                   IF a.id = dlg[s].id
                   THEN [a EXCEPT !.status = "Completed"] \in appointments'
                   ELSE a \in appointments'
             /\ Cardinality(appointments') = Cardinality(appointments)
             /\ transactions' = transactions
             /\ nextId' = nextId
             /\ dlg' = dlg
      ]_vars

\* C9 witness: an error is on screen, the dialog is still open on an appointment
\* that is Completed, and its pair has no Transaction
C9_Witness ==
    \E s \in Sessions, a \in appointments :
        /\ msg = "critical"
        /\ dlg[s] # NoDlg /\ a.id = dlg[s].id
        /\ a.status = "Completed"
        /\ TxnsOfPair(transactions, a.patient_id, a.service_id) = {}

\* C10: deleting a patient or a service that an appointment references reports
\* an error and leaves the four tables unchanged; once no row references it,
\* the same delete removes it
C10_DeleteReferenced ==
    [][/\ \A pid \in PatientIds :
             delete_patient(pid, "Yes")
             => IF \E a \in appointments : a.patient_id = pid
                THEN msg' = "critical" /\ store' = store
                ELSE (\A t \in transactions : t.patient_id # pid)
                     => /\ ~HasRow(patients', pid)
                        /\ msg' = "info"
                        /\ <<services, appointments, transactions>>' =
                              <<services, appointments, transactions>>
       /\ \A sid \in EditedServiceIds :
             delete_service(sid, "Yes")
             => IF \E a \in appointments : a.service_id = sid
                THEN msg' = "critical" /\ store' = store
                ELSE (\A t \in transactions : t.service_id # sid)
                     => /\ ~HasRow(services', sid)
                        /\ msg' = "info"
                        /\ <<patients, appointments, transactions>>' =
                              <<patients, appointments, transactions>>
      ]_vars

\* C10 witness: the seeded patient is gone after appointments of that patient
\* had been made and removed
C10_Witness ==
    /\ ~HasRow(patients, 1)
    /\ nextId.patients = 2
    /\ nextId.appointments > 1
    /\ appointments = {}
    /\ msg = "info"

\* C11: in every reachable state every appointment row and every transaction
\* row has a patient_id that is the id of an existing patient and a service_id
\* that is the id of an existing service
C11_ReferentialIntegrity ==
    /\ \A a \in appointments :
          HasRow(patients, a.patient_id) /\ HasRow(services, a.service_id)
    /\ \A t \in transactions :
          HasRow(patients, t.patient_id) /\ HasRow(services, t.service_id)

\* C12: from an empty store, a run of seed_defaults that meets no store error
\* leaves exactly the 4 staff rows, the sample patient and the 15 services; a
\* run on that store inserts no row into any table
C12_SeedingIdempotent ==
    [][\A fail \in SeedFails :
          seed_defaults(fail)
          => /\ (fail = 0 /\ staff = {} /\ patients = {} /\ services = {}
                  /\ nextId.staff = 1 /\ nextId.patients = 1 /\ nextId.services = 1)
                => /\ staff' = SeedStaff
                   /\ patients' = SeedPatients
                   /\ services' = SeedServices
             /\ (staff = SeedStaff /\ patients = SeedPatients /\ services = SeedServices)
                => /\ <<staff, patients, services, appointments, transactions>>' =
                         <<staff, patients, services, appointments, transactions>>
                   /\ nextId' = nextId
      ]_vars

\* C12 witness: the seeded store, after two runs and with nothing deleted
C12_Witness ==
    /\ boot.runs = 2
    /\ msg = "none"
    /\ Cardinality(staff) = 4 /\ Cardinality(patients) = 1
    /\ Cardinality(services) = 15
    /\ nextId.staff = 5 /\ nextId.patients = 2 /\ nextId.services = 16

\* C13: a run of seed_defaults leaves every non-empty table of staff, patients
\* and services unchanged, whatever the other two hold, and, when no store
\* error stops it, fills every empty one with its default rows
C13_SeedGuardsIndependent ==
    [][\A fail \in SeedFails :
          seed_defaults(fail)
          => /\ staff # {} => staff' = staff
             /\ patients # {} => patients' = patients
             /\ services # {} => services' = services
             /\ fail = 0
                => /\ staff = {}
                      => /\ Cardinality(staff') = Len(SeedStaffEmails)
                         /\ {r.email : r \in staff'} =
                               {SeedStaffEmails[i] : i \in 1..Len(SeedStaffEmails)}
                   /\ patients = {}
                      => /\ Cardinality(patients') = 1
                         /\ \A r \in patients' : r.email = "patient1@clinic.local"
                   /\ services = {}
                      => /\ Cardinality(services') = Len(SeedPrices)
                         /\ \A i \in 1..Len(SeedPrices) :
                               \E r \in services' :
                                  r.id = nextId.services + i - 1 /\ r.price = SeedPrices[i]
      ]_vars

\* C13 witness: the sample patient was deleted and inserted again by a later
\* run that found staff and services in place and left them alone
C13_Witness ==
    /\ ~HasRow(patients, 1)
    /\ Cardinality(patients) = 1
    /\ staff = SeedStaff
    /\ services = SeedServices
    /\ nextId.services = 16

T1430 == <<"1", "4", ":", "3", "0">>

\* C14: a registered patient's booking of Oral Prophylaxis at 14:30 creates one
\* Pending appointment and no Transaction; when staff then sets it to Completed
\* and the pair has no Transaction, the appointment is Completed and the pair
\* has exactly one Transaction, of amount 1200.00
C14_RegisterBookComplete ==
    [][/\ \A p \in RegisteredIds, strict \in BOOLEAN :
             ( /\ HasRow(patients, p)
               /\ BookingDialog_book(p, OralProphylaxis, T1430, strict) )
             => /\ \E b \in appointments' \ appointments :
                      /\ appointments' = appointments \cup {b}
                      /\ b.patient_id = p /\ b.service_id = OralProphylaxis
                      /\ b.status = "Pending"
                /\ transactions' = transactions
       /\ \A a \in appointments :
             ( /\ a.patient_id \in RegisteredIds
               /\ a.service_id = OralProphylaxis
               /\ dlg["staffA"].id = a.id
               /\ TxnsOfPair(transactions, a.patient_id, a.service_id) = {}
               /\ EditAppointmentDialog_save("staffA", "Completed", "none") )
             => /\ [a EXCEPT !.status = "Completed"] \in appointments'
                /\ \E u \in transactions' :
                      /\ TxnsOfPair(transactions', a.patient_id, a.service_id) = {u}
                      /\ u.amount = 120000
      ]_vars

\* C14 witness: the patient registered through the portal has a Completed
\* appointment for Oral Prophylaxis and one Transaction of 1200.00 for it
C14_Witness ==
    \E p \in patients, a \in appointments, u \in transactions :
        /\ p.id \in RegisteredIds /\ p.email = "new@clinic.local"
        /\ a.patient_id = p.id /\ a.service_id = OralProphylaxis
        /\ a.status = "Completed"
        /\ TxnsOfPair(transactions, p.id, OralProphylaxis) = {u}
        /\ u.amount = 120000
        /\ Cardinality(appointments) = 1

Blank(s) == \A i \in 1..Len(s) : s[i] = " "

\* the decimal numeral of n
RECURSIVE ToDigits(_)
ToDigits(n) ==
    LET d == <<"0", "1", "2", "3", "4", "5", "6", "7", "8", "9">>[(n % 10) + 1]
    IN  IF n < 10 THEN <<d>> ELSE ToDigits(n \div 10) \o <<d>>

\* the numerals of the integers 1..120
AgeNumerals == {ToDigits(n) : n \in 1..120}

\* C16: register_action on a form with a missing name, email, password or
\* confirmation, with a password that differs from the confirmation, with an
\* age that is no integer in 1..120, or with an email some patient row has,
\* leaves the patients table unchanged and does not show the success card
C16_RegistrationValidation ==
    [][(reg["portalA"].pc = "form" /\ UNCHANGED <<appointments, dlg>>)
       => \A f \in RegForms :
             ( /\ register_action("portalA", f)
               /\ \/ Blank(f.name) \/ Blank(f.email) \/ Blank(f.pw) \/ Blank(f.confirm)
                  \/ Strip(f.pw) # Strip(f.confirm)
                  \/ Strip(f.age) \notin AgeNumerals
                  \/ \E r \in patients : r.email = Text(Strip(f.email)) )
             => /\ patients' = patients
                /\ nextId' = nextId
                /\ reg'["portalA"].pc # "success"
                /\ msg' # "Registration completed successfully."
      ]_vars

\* C16 witness: a registration with the seeded patient's email was refused and
\* the table still holds that patient alone
C16_Witness ==
    /\ msg = "Email already registered."
    /\ reg["portalA"] = [pc |-> "form", email |-> "patient1@clinic.local", password |-> ""]
    /\ patients = SeedPatients
    /\ nextId.patients = 2

\* C15: a transactions row, once inserted, is in the table unchanged in every
\* later state: no step removes it or alters its patient_id, service_id or
\* amount
C15_TransactionImmutable ==
    [][\A u \in transactions : u \in transactions']_vars

\* C15 witness: a Transaction whose service has since been given another price
\* and whose originating appointment has been deleted
C15_Witness ==
    \E u \in transactions :
        /\ \E v \in services : v.id = u.service_id /\ v.price # u.amount
        /\ appointments = {}
        /\ msg = "info"

NoTwoSameEmail ==
    \A p \in patients, q \in patients : p.email = q.email => p.id = q.id

\* C17: no two patient rows ever have the same email, under every interleaving
\* of registrations, staff adds, staff edits and profile edits; a registration
\* whose existence check passed and whose email a row holds by the time of its
\* INSERT inserts nothing and reports the failure, otherwise it inserts its row
C17_EmailUnique ==
    /\ []NoTwoSameEmail
    /\ [][\A w \in Windows :
             (reg[w].pc = "checked" /\ register_insert(w))
             => IF \E r \in patients : r.email = reg[w].email
                THEN /\ patients' = patients
                     /\ msg' = "Registration failed"
                     /\ reg'[w].pc = "form"
                ELSE /\ \E r \in patients' \ patients :
                           /\ patients' = patients \cup {r}
                           /\ r.email = reg[w].email
                     /\ reg'[w].pc = "success"
         ]_vars

\* C17 witness: two windows submitted the same new email; one registered it,
\* the INSERT of the other failed, and one row holds that email
C17_Witness ==
    /\ reg["portalA"] = [pc |-> "success", email |-> "new@clinic.local", password |-> "pw1"]
    /\ reg["portalB"] = [pc |-> "form", email |-> "new@clinic.local", password |-> "pw1"]
    /\ msg = "Registration failed"
    /\ patients = SeedPatients \cup {[id |-> 2, email |-> "new@clinic.local",
                                     password |-> StoredHash("pw1")]}

\* C18: when a write handler has returned, no connection it opened is still
\* open, and no store error has left a handler uncaught
C18_ClosedAndCaught == conn.open = 0 /\ ~conn.escaped

\* C19: hash_password returns a hash for every plaintext, and check_password
\* of a plaintext against that hash is true exactly when the plaintext is
\* the one that was hashed
C19_PasswordRoundTrip ==
    /\ pw.pc = "hashed" => ~pw.hashed.raised
    /\ pw.pc = "checked" => (pw.ok <=> pw.other = pw.plain)

\* C20: DB() on a missing database calls _create_db and connects a second
\* time, once; every other connection error and a failed second connect leave
\* DB() with no further attempt; in main such an error ends in the fatal
\* message and exit status 1, the portal never opened
C20_CreateRetryOnceElseFatal ==
    /\ [](boot.connects <= 2 /\ boot.creates <= 1)
    /\ [](boot.pc = "retry" => boot.connects = 1 /\ boot.creates = 1)
    /\ [][boot.pc = "DB" /\ boot'.pc # "DB" =>
            /\ boot'.connects = 1 /\ boot'.creates = 0
            /\ boot'.pc = IF ~conn.up THEN "raised"
                          ELSE IF boot.database THEN "opened" ELSE "bad_db"]_vars
    /\ [][boot.pc = "bad_db" /\ boot'.pc # "bad_db" =>
            /\ boot'.creates = 1 /\ boot'.connects = 1
            /\ boot'.pc \in {"retry", "raised"}
            /\ boot'.pc = "retry" => boot'.database]_vars
    /\ [][boot.pc = "retry" /\ boot'.pc # "retry" =>
            /\ boot'.connects = 2 /\ boot'.creates = 1
            /\ boot'.pc = IF conn.up /\ boot.database THEN "opened" ELSE "raised"]_vars
    /\ [][boot.pc = "raised" /\ boot.caller \in MainCallers /\ boot'.pc # "raised" =>
            /\ boot'.pc = "exited" /\ boot'.exit = 1 /\ boot'.fatal
            /\ msg' = "critical" /\ ~boot'.portal]_vars
    /\ [](boot.fatal => boot.pc = "exited" /\ boot.exit = 1 /\ ~boot.portal)

\* main ended with the fatal message after the second connect of a DB() failed
C20_Witness ==
    /\ boot.pc = "exited" /\ boot.fatal /\ boot.exit = 1
    /\ boot.connects = 2 /\ boot.creates = 1

\* C21: a SELECT through DB.query returns the rows and changes nothing; a
\* write returns success and is committed by the call exactly when commit is
\* passed, else it stays uncommitted on the connection; the handlers' DB
\* objects never hold an uncommitted write, so every commit of theirs is of
\* one write and their close rolls nothing back
C21_QueryCommitsEachWrite ==
    /\ [][conn.open = 1 /\ conn'.open = 1 /\ conn'.ret.kind = "rows" =>
            /\ conn'.ret.rows = conn.view
            /\ UNCHANGED <<services, nextId>>
            /\ conn'.view = conn.view /\ conn'.dirty = conn.dirty]_vars
    /\ [][conn.open = 1 /\ conn'.open = 1 /\ conn'.ret.kind = "success" =>
            IF conn'.ret.commit
            THEN services' = conn'.view /\ conn'.dirty = 0
            ELSE services' = services /\ conn'.dirty = conn.dirty + 1]_vars
    /\ [](conn.open = 1 /\ conn.dirty = 0 => services = conn.view)
    /\ [](conn.open = 1 /\ conn.app => conn.dirty = 0)
    /\ [][conn.open = 1 /\ conn'.open = 0 => services' = services]_vars

\* the DELETE of the first service was committed, and a DB object used
\* directly holds one uncommitted write that the committed rows do not show
C21_Witness ==
    /\ conn.open = 1 /\ ~conn.app /\ conn.dirty = 1
    /\ conn.view # services
    /\ OralProphylaxis \notin {s.id : s \in services}

\* C22: a lookup of the patient dashboard never lets an exception out: when
\* the server is unreachable or the query fails it returns its empty result,
\* and it changes no table
C22_LookupsDegrade ==
    /\ [](conn.ret.kind \in LookupKinds => ~conn.ret.raised)
    /\ [](conn.ret.kind \in LookupKinds /\ conn.ret.failed =>
             conn.ret.rows = {} /\ conn.ret.count = 0)
    /\ [][conn'.ret # conn.ret => UNCHANGED store]_vars

\* C23: on both creation paths, the booking dialog and the staff's Add
\* Appointment dialog, a row is inserted into appointments only when the
\* entered time is an HH:MM text in 00:00..23:59
C23_NoInsertOnMalformedTime ==
    [][(\E b \in appointments' : b \notin appointments)
          => IsHHMM(Strip(time_input))]_vars

Billed(a) ==
    \E u \in transactions :
        u.patient_id = a.patient_id /\ u.service_id = a.service_id

\* a status edit of the appointment has committed its UPDATE and not finished
MidEdit(a) == \E s \in Sessions : dlg[s].id = a.id /\ save[s].pc # "idle"

\* C24 as stated: with no statement of a status edit failing, in every state
\* under interleaved staff edits each Completed appointment has a Transaction
\* of its patient and service
C24_CompletedImpliesBilled ==
    \A a \in appointments : a.status = "Completed" => Billed(a)

\* C24 amended: the same, for every Completed appointment no status edit of
\* which is between its UPDATE and the end of its handler
C24_CompletedBilledAtRest ==
    \A a \in appointments : a.status = "Completed" /\ ~MidEdit(a) => Billed(a)

\* both sessions are at rest after interleaved edits that left two Transactions
\* of the pair of a Completed appointment
C24_Witness ==
    /\ \A s \in Sessions : save[s].pc = "idle" /\ dlg[s] = NoDlg
    /\ \E a \in appointments :
          /\ a.status = "Completed"
          /\ Cardinality(TxnsOfPair(transactions, a.patient_id, a.service_id)) = 2

\* C25: a patient's cancel changes the stored status only of an appointment
\* that is Pending or Confirmed when the UPDATE runs, also when the staff has
\* set it to Completed since the patient's table was loaded
C25_CancelLeavesTerminal ==
    [][\A p \in PatientIds, id \in 1..MaxAppts :
          cancel_appointment(p, id, "Yes")
          => \A a \in appointments :
                (a.id = id /\ a.status \in {"Completed", "Cancelled"})
                => a \in appointments'
      ]_vars

\* C26: once a Transaction of a patient (of a service) exists, it stays, the
\* patient's (service's) row stays, and every delete of that patient (service)
\* is refused with an error and changes nothing, also when no appointment
\* references the row any more
C26_BilledNeverDeleted ==
    /\ [][\A t \in transactions :
             /\ t \in transactions'
             /\ HasId(patients, t.patient_id) => HasId(patients', t.patient_id)
             /\ HasId(services, t.service_id) => HasId(services', t.service_id)
         ]_vars
    /\ [](\A t \in transactions :
             HasId(patients, t.patient_id) /\ HasId(services, t.service_id))
    /\ [][\A pid \in PatientIds :
             (delete_patient(pid, "Yes") /\ \E t \in transactions : t.patient_id = pid)
             => msg' = "critical" /\ store' = store]_vars
    /\ [][\A sid \in EditedServiceIds :
             (delete_service(sid, "Yes") /\ \E t \in transactions : t.service_id = sid)
             => msg' = "critical" /\ store' = store]_vars

\* C26 witness: a patient is billed, every appointment has been deleted, the
\* patient's row is still there and the last handler reported an error
C26_Witness ==
    /\ appointments = {}
    /\ msg = "critical"
    /\ \E t \in transactions : HasId(patients, t.patient_id)
    /\ nextId.appointments > MaxAppts
    /\ \A s \in Sessions : dlg[s] = NoDlg


\* the password of a row with the email e verifies: check_password(word, hash)
Verifies(rows, e, word) ==
    \E r \in rows : r.email = e /\ check_password(pw.lib, CodePoints(word), r.password)

\* C27: login opens a dashboard only for verified credentials.  With an empty
\* email or password it makes no lookup and opens nothing; otherwise it opens
\* the staff dashboard exactly when a staff row has the email and the
\* password verifies against its hash, else the patient dashboard exactly
\* when a patient row does, else it rejects the login; and it leaves every
\* table as it was
C27_LoginOnlyVerified ==
    [][\A w \in Windows, f \in LoginForms :
          (reg[w].pc = "form" /\ login_action(w, f))
          => LET email == Text(Strip(f.email))
                 word == Text(Strip(f.pw))
             IN  /\ UNCHANGED <<store, staff>>
                 /\ (email = "" \/ word = "")
                    => /\ reg'[w].pc = "form"
                       /\ conn'.ret.count = 0 /\ conn'.open = conn.open
                       /\ msg' = "Enter email and password."
                 /\ (email # "" /\ word # "")
                    => /\ reg'[w].pc = "staff_dashboard" <=> Verifies(staff, email, word)
                       /\ reg'[w].pc = "patient_dashboard"
                              <=> (~Verifies(staff, email, word)
                                     /\ Verifies(patients, email, word))
                       /\ reg'[w].pc = "staff_dashboard"
                              => conn'.ret.rows = {r \in staff : r.email = email}
                       /\ reg'[w].pc = "patient_dashboard"
                              => conn'.ret.rows = {r \in patients : r.email = email}
                       /\ reg'[w].pc \notin {"staff_dashboard", "patient_dashboard"}
                              => reg'[w].pc = "form" /\ msg' = "Invalid credentials."
      ]_vars

\* C27 witness: one window is in the staff dashboard, the other in the
\* patient dashboard of the seeded patient, and a login was rejected
C27_Witness ==
    /\ reg["portalA"].pc = "staff_dashboard"
    /\ reg["portalB"].pc = "patient_dashboard"
    /\ reg["portalB"].email = "patient1@clinic.local"
    /\ msg = "Invalid credentials."
    /\ conn.ret.rows = SeedPatients

\* C28: emails are not unique across staff and patients, and the staff check
\* comes first at login.  A registration with an email that a staff row
\* holds and no patient row holds inserts the patient; and a login with an
\* email that both a staff row and a patient row hold opens the staff
\* dashboard whenever the password verifies against the staff hash, so it
\* opens the patient dashboard only for a password that does not
C28_StaffPrecedence ==
    [][/\ \A w \in Windows, f \in LoginRegForms :
             (/\ reg[w].pc = "form"
              /\ RegInvalid(f) = ""
              /\ \E r \in staff : r.email = Text(Strip(f.email))
              /\ ~\E r \in patients : r.email = Text(Strip(f.email))
              /\ register_action(w, f))
             => /\ \E r \in patients' : /\ r \notin patients
                                        /\ r.email = Text(Strip(f.email))
                /\ reg'[w].pc = "success"
       /\ \A w \in Windows, f \in LoginForms :
             (/\ reg[w].pc = "form"
              /\ Strip(f.pw) # <<>>
              /\ \E r \in staff : r.email = Text(Strip(f.email))
              /\ \E r \in patients : r.email = Text(Strip(f.email))
              /\ login_action(w, f))
             => /\ Verifies(staff, Text(Strip(f.email)), Text(Strip(f.pw)))
                      => reg'[w].pc = "staff_dashboard"
                /\ reg'[w].pc = "patient_dashboard"
                      => /\ ~Verifies(staff, Text(Strip(f.email)), Text(Strip(f.pw)))
                         /\ Verifies(patients, Text(Strip(f.email)), Text(Strip(f.pw)))
      ]_vars

\* C28 witness: a patient is registered with the email of a seeded staff row;
\* with that email one window is in the staff dashboard and the other, logged
\* in with the patient's password, in the patient dashboard
C28_Witness ==
    /\ \E r \in patients : r.email = Text(SharedEmail) /\ r.password = StoredHash("pw1")
    /\ \E r \in staff : r.email = Text(SharedEmail)
    /\ reg["portalA"] = [pc |-> "staff_dashboard", email |-> Text(SharedEmail),
                         password |-> ""]
    /\ reg["portalB"] = [pc |-> "patient_dashboard", email |-> Text(SharedEmail),
                         password |-> ""]


\* a step leaves the appointments and the record of every patient but p, and
\* every service, transaction and staff row, as they were
OthersUntouched(p) ==
    /\ {a \in appointments' : a.patient_id # p} = {a \in appointments : a.patient_id # p}
    /\ {r \in patients' : r.id # p} = {r \in patients : r.id # p}
    /\ UNCHANGED <<services, transactions, staff>>

\* C29: patient isolation.  A booking from the dashboard of patient p inserts
\* an appointment of p; the appointments p is offered to cancel are p's own,
\* and a cancel changes only the status of such a row; a profile save changes
\* only the patients row of p; and none of p's handlers changes an
\* appointment or the record of another patient, a service or a transaction
C29_PatientIsolation ==
    [][\A p \in AccountIds :
          /\ (\E svc \in EditedServiceIds, tm \in IsoTimes :
                 BookingDialog_book(p, svc, tm.text, tm.strict))
             => /\ OthersUntouched(p)
                /\ UNCHANGED patients
                /\ appointments \subseteq appointments'
                /\ \A a \in appointments' : a \notin appointments
                      => a.patient_id = p /\ a.status = "Pending"
          /\ (\E id \in 1..MaxAppts, reply \in Replies : cancel_appointment(p, id, reply))
             => /\ OthersUntouched(p)
                /\ UNCHANGED patients
                /\ \A a \in appointments' : a \notin appointments
                      => /\ a.patient_id = p /\ a.status = "Cancelled"
                         /\ a.id \in ptable[p]
          /\ (\E nm \in IsoNames, em \in IsoEmails : ProfileDialog_save(p, nm, em))
             => /\ OthersUntouched(p)
                /\ UNCHANGED appointments
                /\ {r.id : r \in patients'} = {r.id : r \in patients}
          /\ show_my_appointments(p) => UNCHANGED <<store, staff>>
          /\ \A a \in appointments' : a.id \in ptable'[p] => a.patient_id = p
      ]_vars

\* C29 witness: both patients hold an appointment and have changed their
\* email, the registered patient has cancelled theirs, and the seeded
\* patient's appointment is completed and billed
C29_Witness ==
    /\ \E a \in appointments : a.patient_id = 1 /\ a.status = "Completed"
    /\ \E a \in appointments : a.patient_id = 2 /\ a.status = "Cancelled"
    /\ \E t \in transactions : t.patient_id = 1
    /\ \E r \in patients : r.id = 2 /\ r.email = "juan@clinic.local"
    /\ \E r \in patients : r.id = 1 /\ r.email = "new@clinic.local"
    /\ msg = "info"


\* a run of seed_defaults has stopped inside the table's INSERT loop: some
\* but not all of the ids of its default rows have been issued
StaffSeedStopped == 1 < nextId.staff /\ nextId.staff <= Len(SeedStaffEmails)
ServicesSeedStopped == 1 < nextId.services /\ nextId.services <= Len(SeedPrices)

=============================================================================
